---- MODULE Spec2Model ----
(***************************************************************************)
(* Task persistence and reminder scheduling of the TODO list application.  *)
(*                                                                         *)
(* TaskService (pure task logic), NotificationService (reminder            *)
(* evaluation and dispatch), StorageService (IndexedDB wrapper) and the    *)
(* React hooks useTasks / useNotification wired together by App.           *)
(*                                                                         *)
(* The specifications share the pure operators:                            *)
(*   Spec      - the running application: hooks, store, timer, clock       *)
(*   SpecEval  - the reminder evaluator applied to drawn task lists        *)
(*   SpecStore - the StorageService called directly                        *)
(*   SpecConn  - the connection of the StorageService: initDB, close       *)
(*   SpecService - the TaskService called directly                         *)
(*   SpecLoop  - useNotification: its timers, and the dispatcher under it  *)
(* Spec and SpecConn also start on a platform without IndexedDB.           *)
(***************************************************************************)
EXTENDS Integers, Sequences, FiniteSets, Bags, TLC

VARIABLES
    \* ---- the running application (Spec) ----
    tasks,              \* useTasks: React state `tasks`
    tasksRef,           \* the collection of the last committed render: useNotification's
                        \* tasksRef.current and the `tasks` captured by the callbacks
    store,              \* IndexedDB object store 'tasks': id -> record
    supported,          \* the platform has IndexedDB: isIndexedDBSupported()
    ops,                \* bag of hook operations suspended at an await
    now,                \* wall clock, ms
    nextId,             \* number of ids generated so far
    events,             \* number of hook calls (by the user or by handleTasksNotified)
                        \* and clock moves so far
    returned,           \* value the last finished hook operation returned to its caller
    hist,               \* history: what was asked for and what was dispatched
    \* ---- the evaluator on drawn inputs (SpecEval) ----
    ev,
    \* ---- the StorageService called directly (SpecStore) ----
    st,
    \* ---- the hook useNotification and the dispatcher under it (SpecLoop) ----
    nt

appVars == <<tasks, tasksRef, store, supported, ops, now, nextId, events, returned, hist>>
vars == <<tasks, tasksRef, store, supported, ops, now, nextId, events, returned, hist, ev, st,
          nt>>

-----------------------------------------------------------------------------
(* Bounds of the model *)

MaxStored == 2          \* tasks persisted by earlier sessions
MaxEvents == 2          \* hook calls and clock moves in one run of Spec
MaxEvalLen == 2         \* length of a drawn task list in SpecEval
MaxAdvances == 2        \* clock moves in one run of SpecEval
MaxWrites == 3          \* StorageService calls in one run of SpecStore
MaxConnCalls == 3       \* StorageService calls in one run of SpecConn
MaxServiceCalls == 2    \* TaskService calls and clock moves in one run of SpecService
MaxLoopSteps == 3       \* effect runs, timer callbacks and permission changes in one run of SpecLoop

-----------------------------------------------------------------------------
(* JavaScript values *)

UNDEFINED == "undefined"

\* dueDate is a Date held as its getTime() in ms (>= 0), or one of:
NullDate == -1          \* dueDate: null
InvalidDate == -2       \* a Date whose getTime() is NaN

(* types/index.ts *)
PENDING == "pending"
COMPLETED == "completed"
TaskStatus == {PENDING, COMPLETED}

WORK == "work"
STUDY == "study"
LIFE == "life"
TaskCategory == {WORK, STUDY, LIFE}

HIGH == "high"
MEDIUM == "medium"
LOW == "low"
TaskPriority == {HIGH, MEDIUM, LOW}

(* types/filter.ts *)
CREATED_DATE == "createdDate"
DUE_DATE == "dueDate"
PRIORITY == "priority"
SortBy == {CREATED_DATE, DUE_DATE, PRIORITY}
ALL == "all"

NONE == "none"
AT_TIME == "at_time"
FIVE_MIN == "5min"
FIFTEEN_MIN == "15min"
THIRTY_MIN == "30min"
ONE_HOUR == "1hour"
TWO_HOURS == "2hours"
ONE_DAY == "1day"
ReminderOption == {NONE, AT_TIME, FIVE_MIN, FIFTEEN_MIN, THIRTY_MIN, ONE_HOUR, TWO_HOURS, ONE_DAY}

REMINDER_ADVANCE_TIME(option) ==
    CASE option = NONE -> -1
      [] option = AT_TIME -> 0
      [] option = FIVE_MIN -> 5 * 60 * 1000
      [] option = FIFTEEN_MIN -> 15 * 60 * 1000
      [] option = THIRTY_MIN -> 30 * 60 * 1000
      [] option = ONE_HOUR -> 60 * 60 * 1000
      [] option = TWO_HOURS -> 2 * 60 * 60 * 1000
      [] option = ONE_DAY -> 24 * 60 * 60 * 1000

DEFAULT_CHECK_INTERVAL == 60 * 1000

HOUR == 60 * 60 * 1000

-----------------------------------------------------------------------------
(* Sequences *)

RECURSIVE IndexOf(_, _, _)
\* Array.prototype.findIndex(t => t.id === id): first index, 0 when absent
IndexOf(s, id, i) ==
    IF i > Len(s) THEN 0
    ELSE IF s[i].id = id THEN i
    ELSE IndexOf(s, id, i + 1)

findIndex(s, id) == IndexOf(s, id, 1)

Ids(s) == {s[i].id : i \in 1..Len(s)}

\* {...a, ...b}: the fields of b laid over the fields of a
Spread(a, b) ==
    [f \in (DOMAIN a) \cup (DOMAIN b) |-> IF f \in DOMAIN b THEN b[f] ELSE a[f]]

Whitespace == {" "}

RECURSIVE TrimStart(_)
TrimStart(s) ==
    IF s # <<>> /\ Head(s) \in Whitespace THEN TrimStart(Tail(s)) ELSE s

RECURSIVE TrimEnd(_)
TrimEnd(s) ==
    IF s # <<>> /\ s[Len(s)] \in Whitespace THEN TrimEnd(SubSeq(s, 1, Len(s) - 1)) ELSE s

\* String.prototype.trim on a title held as a sequence of characters
trim(s) == TrimEnd(TrimStart(s))

-----------------------------------------------------------------------------
(* services/taskService.ts *)

\* an id generator that returns the same value every time
generateUUID_Repeats(n) == 1

\* generateUUID after n ids: a value it has not returned before; the model
\* numbers them
generateUUID(n) == n + 1

\* isValidTitle without the trim: any non-empty string passes
isValidTitle_NoTrim(title) == Len(title) > 0

isValidTitle(title) == Len(trim(title)) > 0

isValidDueDate(date) == date = NullDate \/ date # InvalidDate

\* "" where the validation passes, else the code of the TaskValidationError
createTaskError(taskData) ==
    IF ~isValidTitle(taskData.title) THEN "EMPTY_TITLE"
    ELSE IF ~isValidDueDate(taskData.dueDate) THEN "INVALID_DATE"
    ELSE ""

\* the task object literal of createTask: taskData.reminderOption is not copied
createTask(taskData, id, clock) ==
    [id |-> id,
     title |-> trim(taskData.title),
     description |-> IF taskData.description \in {UNDEFINED, ""} THEN "" ELSE taskData.description,
     category |-> taskData.category,
     priority |-> taskData.priority,
     status |-> taskData.status,
     dueDate |-> taskData.dueDate,
     createdAt |-> clock,
     updatedAt |-> clock,
     notificationSent |-> FALSE]

\* the validation of updateTask without the check of the due date
updateTaskError_DateUnchecked(taskId, updates, list) ==
    IF findIndex(list, taskId) = 0 THEN "TASK_NOT_FOUND"
    ELSE IF "title" \in DOMAIN updates /\ ~isValidTitle(updates.title)
        THEN "EMPTY_TITLE"
    ELSE ""

updateTaskError(taskId, updates, list) ==
    IF findIndex(list, taskId) = 0 THEN "TASK_NOT_FOUND"
    ELSE IF "title" \in DOMAIN updates /\ ~isValidTitle(updates.title)
        THEN "EMPTY_TITLE"
    ELSE IF "dueDate" \in DOMAIN updates /\ ~isValidDueDate(updates.dueDate)
        THEN "INVALID_DATE"
    ELSE ""

\* updateTask with the spread reversed: the stored fields win over the patch
TaskService_updateTask_StoredWins(taskId, updates, list, clock) ==
    LET i == findIndex(list, taskId)
        merged == Spread(Spread(updates, list[i]), [updatedAt |-> clock])
    IN  [list EXCEPT ![i] = merged]

\* updateTask without `updatedAt: new Date()`
TaskService_updateTask_StaleStamp(taskId, updates, list, clock) ==
    LET i == findIndex(list, taskId)
        merged == Spread(list[i], updates)
        updatedTask ==
            IF "title" \in DOMAIN updates
            THEN [merged EXCEPT !.title = trim(merged.title)]
            ELSE merged
    IN  [list EXCEPT ![i] = updatedTask]

\* TaskService.updateTask on a list that holds taskId and a patch that validates
TaskService_updateTask(taskId, updates, list, clock) ==
    LET i == findIndex(list, taskId)
        merged == Spread(Spread(list[i], updates), [updatedAt |-> clock])
        updatedTask ==
            IF "title" \in DOMAIN updates
            THEN [merged EXCEPT !.title = trim(merged.title)]
            ELSE merged
    IN  [list EXCEPT ![i] = updatedTask]

TaskService_deleteTask(taskId, list) == SelectSeq(list, LAMBDA t : t.id # taskId)

\* toggleTaskStatus without `updatedAt: new Date()`
TaskService_toggleTaskStatus_KeepsStamp(taskId, list, clock) ==
    LET i == findIndex(list, taskId)
        newStatus == IF list[i].status = PENDING THEN COMPLETED ELSE PENDING
    IN  [list EXCEPT ![i] = Spread(list[i], [status |-> newStatus])]

TaskService_toggleTaskStatus(taskId, list, clock) ==
    LET i == findIndex(list, taskId)
        newStatus == IF list[i].status = PENDING THEN COMPLETED ELSE PENDING
    IN  [list EXCEPT ![i] = Spread(list[i], [status |-> newStatus, updatedAt |-> clock])]

TaskService_addTask(task, list) == Append(list, task)

-----------------------------------------------------------------------------
(* services/notificationService.ts *)

\* task.reminderOption read as JavaScript reads a missing property
reminderOptionOf(task) ==
    IF "reminderOption" \in DOMAIN task THEN task.reminderOption ELSE UNDEFINED

\* the filter with the reminder instant itself left out of the window
shouldNotify_LateStart(task, clock) ==
    IF task.status = COMPLETED THEN FALSE
    ELSE IF task.dueDate = NullDate THEN FALSE
    ELSE IF reminderOptionOf(task) \in {UNDEFINED, NONE} THEN FALSE
    ELSE IF task.notificationSent THEN FALSE
    ELSE IF REMINDER_ADVANCE_TIME(reminderOptionOf(task)) < 0 THEN FALSE
    ELSE IF task.dueDate = InvalidDate THEN FALSE
    ELSE LET dueTime == task.dueDate
             reminderTime == dueTime - REMINDER_ADVANCE_TIME(reminderOptionOf(task))
         IN  clock > reminderTime /\ clock <= dueTime + 60 * 60 * 1000

\* the filter without the grace period: an overdue task stays due for ever
shouldNotify_NoGrace(task, clock) ==
    IF task.status = COMPLETED THEN FALSE
    ELSE IF task.dueDate = NullDate THEN FALSE
    ELSE IF reminderOptionOf(task) \in {UNDEFINED, NONE} THEN FALSE
    ELSE IF task.notificationSent THEN FALSE
    ELSE IF REMINDER_ADVANCE_TIME(reminderOptionOf(task)) < 0 THEN FALSE
    ELSE IF task.dueDate = InvalidDate THEN FALSE
    ELSE LET dueTime == task.dueDate
             reminderTime == dueTime - REMINDER_ADVANCE_TIME(reminderOptionOf(task))
         IN  clock >= reminderTime

\* the filter callback of checkTasksForNotification
shouldNotify(task, clock) ==
    IF task.status = COMPLETED THEN FALSE
    ELSE IF task.dueDate = NullDate THEN FALSE
    ELSE IF reminderOptionOf(task) \in {UNDEFINED, NONE} THEN FALSE
    ELSE IF task.notificationSent THEN FALSE
    ELSE IF REMINDER_ADVANCE_TIME(reminderOptionOf(task)) < 0 THEN FALSE
    ELSE IF task.dueDate = InvalidDate THEN FALSE
    ELSE LET dueTime == task.dueDate
             reminderTime == dueTime - REMINDER_ADVANCE_TIME(reminderOptionOf(task))
         IN  clock >= reminderTime /\ clock <= dueTime + 60 * 60 * 1000

checkTasksForNotification(list, clock) ==
    SelectSeq(list, LAMBDA t : shouldNotify(t, clock))

-----------------------------------------------------------------------------
(* The parts of the state a specification does not use stay at these values *)

NoHist ==
    [asked |-> {},          \* <<id, lead>> of the tasks created by addTask with a due date and
                            \* a reminder lead, not modified since
     dispatched |-> {},     \* ids dispatched since creation or the last change of dueDate / reminderOption
     inWindow |-> {},       \* ids in `asked` an evaluation met inside the reminder window asked for
     batch |-> {},          \* ids the last evaluation handed to onTasksNotified, while nothing
                            \* but that batch's own marks ran and no store request failed
     failed |-> FALSE,      \* some store request failed
     deleted |-> {}]        \* ids of the tasks a deleteTask that resolved has removed

AppIdle ==
    /\ tasks = <<>>
    /\ tasksRef = <<>>
    /\ store = <<>>
    /\ supported = TRUE
    /\ ops = EmptyBag
    /\ now = 0
    /\ nextId = 0
    /\ events = 0
    /\ returned = ""
    /\ hist = NoHist

EvIdle ==
    [tasks |-> <<>>,        \* the collection handed to the evaluator
     now |-> 0,             \* the instant of the evaluation
     result |-> <<>>,       \* what the last evaluation returned
     evaluated |-> FALSE,   \* result belongs to the present tasks and now
     before |-> <<>>,       \* result of the evaluation a mark followed
     marked |-> 0,          \* id marked since that evaluation, 0 for none
     advances |-> 0,        \* clock moves so far
     expired |-> {},        \* ids some evaluation met un-notified and past the grace period
     earlier |-> {}]        \* `expired` as it was before the last evaluation

StIdle ==
    [phase |-> "idle",      \* position of the updateTask call in flight: idle, or put
                            \* (the record was found, db.put not yet executed)
     task |-> <<>>,         \* argument of that call
     unknown |-> FALSE,     \* no record was under its id when its db.get ran
     calls |-> 0,           \* calls made so far
     op |-> "",             \* the last call that settled
     id |-> 0,              \* the id it was about
     absent |-> FALSE,      \* no record was under that id when its first request ran
     dbOk |-> TRUE,         \* its database requests succeeded
     outcome |-> "",        \* "ok" where it resolved, else the code of the StorageError
     before |-> <<>>,       \* the store before its last request
     prior |-> "",          \* the call that settled before it
     priorId |-> 0,         \* the id that one was about
     priorOk |-> FALSE,     \* that one resolved
     raced |-> FALSE,       \* a deleteTask of the id of the last updateTask completed after
                            \* that call's db.get and before its db.put
     result |-> <<>>,       \* what the last loadTasks or getTask resolved with
     last |-> <<>>,         \* <<task>> where the call just settled was a saveTask that resolved
     after |-> <<>>,        \* `last` as it was when the last getTask was called
     fresh |-> FALSE,       \* the store started empty and only saveTask calls of pairwise
                            \* distinct ids have run, all resolved
     written |-> {}]        \* the tasks those calls wrote

\* what one run of checkReminders did
NoCheck ==
    [source |-> "",         \* "effect" or "timer": who called it
     stopped |-> FALSE,     \* it ran while the component was unmounted
     permission |-> "",     \* getPermissionStatus() as processTaskReminders read it
     batch |-> <<>>,        \* ids of tasksToRemind
     natives |-> <<>>,      \* [tag, sent] of each `new Notification` attempted, in order
     fallbacks |-> <<>>,    \* the batches (ids) handed to inAppReminderCallback
     marked |-> <<>>,       \* the id lists handed to onTasksNotified
     returned |-> <<>>,     \* ids processTaskReminders returned
     threw |-> "",          \* the callback that threw: "onInAppReminder", "onTasksNotified"
     escaped |-> FALSE,     \* the exception left checkReminders
     running |-> FALSE]     \* an evaluation timer is armed once the caller is done

\* what the last call of requestPermission did
NoRequest ==
    [status |-> "",         \* getPermissionStatus() when it was called
     prompted |-> FALSE,    \* it called Notification.requestPermission()
     prompting |-> FALSE,   \* that call has not settled yet
     prompts |-> 0,         \* calls of Notification.requestPermission() so far
     result |-> ""]         \* what it resolved to

NtIdle ==
    [mounted |-> FALSE,             \* the component using the hook is mounted
     checkInterval |-> DEFAULT_CHECK_INTERVAL,  \* options.checkInterval
     intervalRef |-> 0,             \* intervalRef.current, 0 for null
     pollRef |-> 0,                 \* permissionCheckInterval of the effect in force, 0 for none
     timers |-> {},                 \* ids of the evaluation timers the platform holds armed
     polls |-> {},                  \* ids of the permission-poll timers the platform holds armed
     nextTimer |-> 0,               \* ids setInterval has handed out
     permission |-> "default",      \* Notification.permission, "unsupported" without the API
     permissionStatus |-> "default",\* state permissionStatus
     onInAppReminder |-> FALSE,     \* options.onInAppReminder is given
     onTasksNotified |-> FALSE,     \* options.onTasksNotified is given
     inAppReminderCallback |-> FALSE,   \* notificationService.inAppReminderCallback is set
     pendingReminders |-> <<>>,     \* state pendingReminders (ids)
     polled |-> 0,                  \* runs of checkPermission so far
     steps |-> 0,
     last |-> NoCheck,
     request |-> NoRequest]

-----------------------------------------------------------------------------
(* SpecEval: NotificationService.checkTasksForNotification on drawn lists,  *)
(* followed by the caller marking a returned task through                  *)
(* TaskService.updateTask and evaluating again.                            *)

EvalDue == 2 * 24 * 60 * 60 * 1000

\* reminderOption values a stored task can carry; UNDEFINED is the missing property
EvalOptions == ReminderOption \cup {UNDEFINED}

MakeTask(id, status, dueDate, option, sent) ==
    LET base == [id |-> id, title |-> <<"a">>, description |-> "", category |-> WORK,
                 priority |-> MEDIUM, status |-> status, dueDate |-> dueDate,
                 createdAt |-> 0, updatedAt |-> 0, notificationSent |-> sent]
    IN  IF option = UNDEFINED THEN base ELSE Spread(base, [reminderOption |-> option])

\* the first task of a drawn list takes every combination of the fields read
EvalFirst ==
    {MakeTask(1, s, d, o, n) :
        s \in TaskStatus, d \in {NullDate, EvalDue}, o \in EvalOptions, n \in BOOLEAN}

\* the tasks after it
EvalRest(id) ==
    {MakeTask(id, PENDING, EvalDue, FIVE_MIN, FALSE),
     MakeTask(id, PENDING, EvalDue, ONE_DAY, FALSE),
     MakeTask(id, PENDING, EvalDue, ONE_HOUR, TRUE),
     MakeTask(id, PENDING, EvalDue + 2 * HOUR, ONE_HOUR, FALSE)}

RECURSIVE EvalLists(_)
\* the drawn lists of length n: ids 1..n in order
EvalLists(n) ==
    IF n = 0 THEN {<<>>}
    ELSE IF n = 1 THEN {<<t>> : t \in EvalFirst}
    ELSE {Append(l, t) : l \in EvalLists(n - 1), t \in EvalRest(n)}

\* instants on both sides of each edge of the reminder window of EvalDue
EvalInstants ==
    {EvalDue - REMINDER_ADVANCE_TIME(o) - d : o \in ReminderOption \ {NONE}, d \in {0, 1}}
        \cup {EvalDue + 60 * 60 * 1000 + d : d \in {0, 1}}

InitEval ==
    /\ AppIdle
    /\ st = StIdle
    /\ nt = NtIdle
    /\ \E n \in 0..MaxEvalLen : \E l \in EvalLists(n) : \E t \in EvalInstants :
          ev = [EvIdle EXCEPT !.tasks = l, !.now = t]

\* ids of the un-notified tasks whose due date lies more than an hour before clock
PastGrace(list, clock) ==
    {list[i].id : i \in {j \in 1..Len(list) :
        /\ ~list[j].notificationSent
        /\ list[j].dueDate # NullDate
        /\ list[j].dueDate + 3600000 < clock}}

\* one evaluation at the instant ev.now
EvEvaluate ==
    /\ ~ev.evaluated
    /\ ev' = [ev EXCEPT !.result = checkTasksForNotification(ev.tasks, ev.now),
                        !.evaluated = TRUE,
                        !.earlier = ev.expired,
                        !.expired = @ \cup PastGrace(ev.tasks, ev.now)]
    /\ UNCHANGED <<appVars, st, nt>>

\* an hour passes before the next evaluation
EvAdvance ==
    /\ ev.advances < MaxAdvances
    /\ ev' = [ev EXCEPT !.now = @ + HOUR,
                        !.advances = @ + 1,
                        !.evaluated = FALSE,
                        !.before = <<>>,
                        !.marked = 0]
    /\ UNCHANGED <<appVars, st, nt>>

\* the caller marks one returned task: updateTask(id, {notificationSent: true})
EvMarkNotified(id) ==
    /\ ev.evaluated
    /\ id \in Ids(ev.result)
    /\ updateTaskError(id, [notificationSent |-> TRUE], ev.tasks) = ""
    /\ ev' = [ev EXCEPT
                !.tasks = TaskService_updateTask(id, [notificationSent |-> TRUE], ev.tasks, ev.now),
                !.before = ev.result,
                !.marked = id,
                !.evaluated = FALSE]
    /\ UNCHANGED <<appVars, st, nt>>

NextEval ==
    \/ EvEvaluate
    \/ \E id \in 1..(MaxEvalLen + 1) : EvMarkNotified(id)
    \/ EvAdvance

SpecEval == InitEval /\ [][NextEval]_vars

-----------------------------------------------------------------------------
(* C5, C6, C7: the reminder window *)

\* leadDuration of the specification, in ms
LeadDuration(lead) ==
    CASE lead = AT_TIME -> 0
      [] lead = FIVE_MIN -> 300000
      [] lead = FIFTEEN_MIN -> 900000
      [] lead = THIRTY_MIN -> 1800000
      [] lead = ONE_HOUR -> 3600000
      [] lead = TWO_HOURS -> 7200000
      [] lead = ONE_DAY -> 86400000

\* a task carries a reminder lead: the property is there and is not none
HasLead(t) == "reminderOption" \in DOMAIN t /\ t.reminderOption \in ReminderOption \ {NONE}

Qualifies(t, clock) ==
    /\ t.status # COMPLETED
    /\ t.dueDate # NullDate
    /\ HasLead(t)
    /\ t.notificationSent = FALSE
    /\ t.dueDate - LeadDuration(t.reminderOption) <= clock
    /\ clock <= t.dueDate + 3600000

\* C5: an evaluation returns, in input order, exactly the tasks that are not
\* completed, have a due date and a reminder lead, are not yet notified and
\* whose window [dueAt - leadDuration, dueAt + 3600000 ms] holds the instant,
\* both ends included.
C5_EvaluatorWindow ==
    ev.evaluated =>
        ev.result = SelectSeq(ev.tasks, LAMBDA t : Qualifies(t, ev.now))

\* an evaluation on an edge of a window that kept one task and dropped another
C5_Witness ==
    /\ ev.evaluated
    /\ Len(ev.tasks) = 2
    /\ Len(ev.result) = 1
    /\ ev.result[1].id = 2
    /\ ev.now = EvalDue - 300000

\* C6: after a returned task was marked notified through updateTask, the
\* evaluation repeated at the same instant returns the earlier result without
\* that task.
C6_MarkedExcludedOthersKept ==
    (ev.evaluated /\ ev.marked # 0) =>
        ev.result = SelectSeq(ev.before, LAMBDA t : t.id # ev.marked)

\* a repeated evaluation that dropped the marked task and kept another one
C6_Witness ==
    /\ ev.evaluated
    /\ ev.marked # 0
    /\ Len(ev.before) = 2
    /\ Len(ev.result) = 1

\* C7: an evaluation excludes every un-notified task whose due date lies more
\* than 3600000 ms before the instant, and every task an earlier evaluation
\* met in that condition; it includes every pending, un-notified task with a
\* reminder lead whose due date lies at most 3600000 ms before the instant.
C7_GraceWindow ==
    ev.evaluated =>
        /\ Ids(ev.result) \cap PastGrace(ev.tasks, ev.now) = {}
        /\ Ids(ev.result) \cap ev.earlier = {}
        /\ \A i \in 1..Len(ev.tasks) :
              (/\ ev.tasks[i].status = PENDING
               /\ HasLead(ev.tasks[i])
               /\ ~ev.tasks[i].notificationSent
               /\ ev.tasks[i].dueDate # NullDate
               /\ ev.tasks[i].dueDate <= ev.now
               /\ ev.now <= ev.tasks[i].dueDate + 3600000)
                  => ev.tasks[i].id \in Ids(ev.result)

\* a later evaluation that left out a task already past its grace period and
\* returned another task that was due within the last hour
C7_Witness ==
    /\ ev.evaluated
    /\ ev.earlier # {}
    /\ \E i \in 1..Len(ev.result) :
          /\ ev.result[i].dueDate <= ev.now
          /\ ev.result[i].id \notin ev.expired

-----------------------------------------------------------------------------
(* services/storageService.ts: the object store 'tasks', keyPath 'id' *)

dbHas(db, id) == id \in DOMAIN db

\* put as IDBObjectStore.add with the ConstraintError swallowed: a stored record stays
dbPut_KeepsStored(db, task) ==
    [i \in (DOMAIN db) \cup {task.id} |-> IF i \in DOMAIN db THEN db[i] ELSE task]

\* IDBObjectStore.put: insert or replace the record under task.id
dbPut(db, task) ==
    [i \in (DOMAIN db) \cup {task.id} |-> IF i = task.id THEN task ELSE db[i]]

\* IDBObjectStore.get: the record under id, undefined where none is
dbGet(db, id) == IF id \in DOMAIN db THEN db[id] ELSE UNDEFINED

\* IDBObjectStore.delete: no error when the key is absent
\* a delete that leaves the record in place
dbDelete_KeepsRecord(db, id) == db

dbDelete(db, id) == [i \in (DOMAIN db) \ {id} |-> db[i]]

Least(S) == CHOOSE x \in S : \A y \in S : x <= y

RECURSIVE InKeyOrder(_, _)
InKeyOrder(db, keys) ==
    IF keys = {} THEN <<>>
    ELSE <<db[Least(keys)]>> \o InKeyOrder(db, keys \ {Least(keys)})

\* getAll that stops one record early
dbGetAll_StopsEarly(db) ==
    InKeyOrder(db, {k \in DOMAIN db : \E m \in DOMAIN db : m > k})

\* IDBObjectStore.getAll: every record, in key order
dbGetAll(db) == InKeyOrder(db, DOMAIN db)

\* the existence check dropped: updateTask is a plain upsert
existenceCheck_Upsert(db, task) == ""

\* StorageService.updateTask after `existing = await db.get(STORE_NAME, task.id)`:
\* the code of the StorageError thrown, "" where none is
existenceCheck(db, task) ==
    IF ~dbHas(db, task.id) THEN "WRITE_FAILED" ELSE ""

-----------------------------------------------------------------------------
(* SpecStore: the StorageService called directly on an initialised         *)
(* database.  A database request can fail (dbOk = FALSE); a caller can     *)
(* call saveTask or deleteTask while an updateTask waits for its db.put.   *)

StoreIds == 1..2

\* the task objects handed to saveTask and updateTask
StoreTasks == {MakeTask(id, PENDING, NullDate, UNDEFINED, sent) : id \in StoreIds, sent \in BOOLEAN}

\* the databases an earlier session can have left
StoreInits == {<<>>, dbPut(<<>>, MakeTask(1, PENDING, NullDate, UNDEFINED, FALSE))}

InitStore ==
    /\ tasks = <<>>
    /\ tasksRef = <<>>
    /\ store \in StoreInits
    /\ supported = TRUE
    /\ ops = EmptyBag
    /\ now = 0
    /\ nextId = 0
    /\ events = 0
    /\ returned = ""
    /\ hist = NoHist
    /\ ev = EvIdle
    /\ nt = NtIdle
    /\ st = [StIdle EXCEPT !.fresh = (store = <<>>)]

\* bookkeeping of a call that settles; a call other than saveTask ends a run of fresh puts
Settled(op, id, absent, dbOk, outcome) ==
    [st EXCEPT !.calls = IF op = "updateTaskPut" THEN @ ELSE @ + 1,
               !.op = IF op = "updateTaskPut" THEN "updateTask" ELSE op,
               !.id = id, !.absent = absent, !.dbOk = dbOk, !.outcome = outcome,
               !.before = store,
               !.prior = st.op, !.priorId = st.id, !.priorOk = (st.outcome = "ok"),
               !.last = <<>>,
               !.fresh = @ /\ op \in {"loadTasks", "getTask"}]

\* saveTask: await db.put(STORE_NAME, task); any error becomes 'WRITE_FAILED'
StorageService_saveTask(task, dbOk) ==
    /\ st.calls < MaxWrites
    /\ store' = IF dbOk THEN dbPut(store, task) ELSE store
    /\ st' = [Settled("saveTask", task.id, ~dbHas(store, task.id), dbOk,
                      IF dbOk THEN "ok" ELSE "WRITE_FAILED")
                EXCEPT !.last = IF dbOk THEN <<task>> ELSE <<>>,
                       !.fresh = st.fresh /\ dbOk /\ st.phase = "idle"
                                 /\ \A t \in st.written : t.id # task.id,
                       !.written = @ \cup {task}]
    /\ UNCHANGED <<tasks, tasksRef, ops, now, nextId, events, returned, hist, ev, supported, nt>>

\* updateTask up to `await db.put`: db.get, then the existence check
StorageService_updateTask(task, dbOk) ==
    /\ st.calls < MaxWrites
    /\ st.phase = "idle"
    /\ IF ~dbOk
       THEN st' = Settled("updateTask", task.id, ~dbHas(store, task.id), FALSE, "WRITE_FAILED")
       ELSE IF existenceCheck(store, task) # ""
       THEN st' = Settled("updateTask", task.id, ~dbHas(store, task.id), TRUE,
                          existenceCheck(store, task))
       ELSE st' = [st EXCEPT !.phase = "put", !.task = task, !.calls = @ + 1,
                             !.unknown = ~dbHas(store, task.id),
                             !.raced = FALSE, !.last = <<>>, !.fresh = FALSE]
    /\ UNCHANGED <<tasks, tasksRef, store, ops, now, nextId, events, returned, hist, ev, supported, nt>>

\* updateTask from `await db.put(STORE_NAME, task)` on
StorageService_updateTaskPut(dbOk) ==
    /\ st.phase = "put"
    /\ store' = IF dbOk THEN dbPut(store, st.task) ELSE store
    /\ st' = [Settled("updateTaskPut", st.task.id, st.unknown, dbOk,
                      IF dbOk THEN "ok" ELSE "WRITE_FAILED")
                EXCEPT !.phase = "idle", !.task = <<>>, !.unknown = FALSE]
    /\ UNCHANGED <<tasks, tasksRef, ops, now, nextId, events, returned, hist, ev, supported, nt>>

\* deleteTask: await db.delete(STORE_NAME, taskId); any error becomes 'DELETE_FAILED'
StorageService_deleteTask(taskId, dbOk) ==
    /\ st.calls < MaxWrites
    /\ store' = IF dbOk THEN dbDelete(store, taskId) ELSE store
    /\ st' = [Settled("deleteTask", taskId, ~dbHas(store, taskId), dbOk,
                      IF dbOk THEN "ok" ELSE "DELETE_FAILED")
                EXCEPT !.raced = @ \/ (dbOk /\ st.phase = "put" /\ st.task.id = taskId)]
    /\ UNCHANGED <<tasks, tasksRef, ops, now, nextId, events, returned, hist, ev, supported, nt>>

\* loadTasks: return await db.getAll(STORE_NAME); any error becomes 'READ_FAILED'
StorageService_loadTasks(dbOk) ==
    /\ st.calls < MaxWrites
    /\ st' = [Settled("loadTasks", 0, FALSE, dbOk, IF dbOk THEN "ok" ELSE "READ_FAILED")
                EXCEPT !.result = IF dbOk THEN dbGetAll(store) ELSE <<>>]
    /\ UNCHANGED <<tasks, tasksRef, store, ops, now, nextId, events, returned, hist, ev, supported, nt>>

\* getTask: return await db.get(STORE_NAME, taskId); undefined where no record is
StorageService_getTask(taskId, dbOk) ==
    /\ st.calls < MaxWrites
    /\ st' = [Settled("getTask", taskId, ~dbHas(store, taskId), dbOk,
                      IF dbOk THEN "ok" ELSE "READ_FAILED")
                EXCEPT !.result = IF dbOk THEN dbGet(store, taskId) ELSE <<>>,
                       !.after = st.last]
    /\ UNCHANGED <<tasks, tasksRef, store, ops, now, nextId, events, returned, hist, ev, supported, nt>>

NextStore ==
    \/ \E task \in StoreTasks : \E dbOk \in BOOLEAN : StorageService_saveTask(task, dbOk)
    \/ \E task \in StoreTasks : \E dbOk \in BOOLEAN : StorageService_updateTask(task, dbOk)
    \/ \E dbOk \in BOOLEAN : StorageService_updateTaskPut(dbOk)
    \/ \E taskId \in StoreIds : \E dbOk \in BOOLEAN : StorageService_deleteTask(taskId, dbOk)
    \/ \E dbOk \in BOOLEAN : StorageService_loadTasks(dbOk)
    \/ \E taskId \in StoreIds : \E dbOk \in BOOLEAN : StorageService_getTask(taskId, dbOk)

SpecStore == InitStore /\ [][NextStore]_vars

-----------------------------------------------------------------------------
(* C10 - C13: the store operations *)

\* the last call was an updateTask that found no record under its id
UpdateOfUnknownId == st.op = "updateTask" /\ st.absent /\ st.dbOk

\* the last call was a saveTask on an id without a record, its db.put not failing
PutOfUnknownId == st.op = "saveTask" /\ st.absent /\ st.dbOk

PutCreated ==
    /\ st.outcome = "ok"
    /\ dbHas(store, st.id)
    /\ store[st.id].id = st.id
    /\ DOMAIN store = DOMAIN st.before \cup {st.id}
    /\ \A i \in DOMAIN st.before : store[i] = st.before[i]

\* C11: an updateTask that resolved has left no record under an id whose
\* deleteTask completed after the update's existence check.
C11_UpdateAtomicWithDelete ==
    (st.op = "updateTask" /\ st.outcome = "ok" /\ st.raced) => ~dbHas(store, st.id)

\* C12: from an empty store, after saveTask of tasks with pairwise distinct
\* ids, loadTasks returns exactly the tasks written, each once.
C12_RoundTrip ==
    (st.op = "loadTasks" /\ st.outcome = "ok" /\ st.fresh) =>
        /\ {st.result[i] : i \in 1..Len(st.result)} = st.written
        /\ Len(st.result) = Cardinality(st.written)

\* two tasks were written to the empty store and read back
C12_Witness ==
    /\ st.op = "loadTasks" /\ st.outcome = "ok" /\ st.fresh
    /\ Cardinality(st.written) = 2

\* C13: a getTask called right after a saveTask of the same id resolved
\* returns a record equal to the task written, whether or not the id had a
\* record before; the store holds one record per id.
C13_WriteThenRead ==
    (st.op = "getTask" /\ st.outcome = "ok" /\ st.after # <<>> /\ st.after[1].id = st.id) =>
        /\ st.result = st.after[1]
        /\ \A i \in DOMAIN store : store[i].id = i

\* the task read back replaced a different record under the same id
C13_Witness ==
    /\ st.op = "getTask" /\ st.outcome = "ok" /\ st.after # <<>> /\ st.after[1].id = st.id
    /\ st.result = st.after[1]
    /\ store = dbPut(<<>>, MakeTask(1, PENDING, NullDate, UNDEFINED, TRUE))
    /\ st.calls = 2 /\ ~st.fresh

\* C10 as stated: updateTask on an id without a record fails with code
\* NOT_FOUND and leaves the store unchanged; saveTask on such an id succeeds
\* and creates the record.
C10_UpdateUnknownIdNotFound ==
    /\ UpdateOfUnknownId => (st.outcome = "NOT_FOUND" /\ store = st.before)
    /\ PutOfUnknownId => PutCreated

\* C10 amended: updateTask on an id without a record fails with a
\* StorageError of code WRITE_FAILED and leaves the store unchanged; saveTask
\* on such an id succeeds and creates the record.
C10_UpdateUnknownIdWriteFailed ==
    /\ UpdateOfUnknownId => (st.outcome = "WRITE_FAILED" /\ store = st.before)
    /\ PutOfUnknownId => PutCreated

\* an updateTask on an id without a record has failed while the store holds
\* another record
C10_Witness ==
    /\ UpdateOfUnknownId
    /\ st.outcome = "WRITE_FAILED"
    /\ st.id = 2
    /\ DOMAIN store = {1}
    /\ st.calls >= 2

-----------------------------------------------------------------------------
(* SpecConn: the connection of one StorageService.  Callers call initDB,   *)
(* close and the store operations at any time; openDB settles later.  An   *)
(* operation's own requests run without failure and without interleaving   *)
(* here: SpecStore covers both.                                            *)

DB_VERSION == 1

\* openDB that runs the upgrade callback on every open
openDB_AlwaysUpgrade(db, oldVersion) == <<>>

\* openDB(DB_NAME, DB_VERSION, {upgrade}): the upgrade callback runs where the
\* stored version is lower; it drops the object store and creates it anew
openDB(db, oldVersion) ==
    IF oldVersion < DB_VERSION THEN <<>> ELSE db

\* initDB never handing out the promise of the initialization in flight
joinsInit_Never(s) == FALSE

\* initDB: if (this.initPromise) return this.initPromise
joinsInit(s) == s.initPromise # 0

\* initDB: if (this.initialized && this.db) return
isReady(s) == s.initialized /\ s.db # 0

\* a query that keeps a record as soon as one entry of the filter matches
queryMatch_AnyEntry(task, filter) ==
    \E k \in DOMAIN filter : k \in DOMAIN task /\ task[k] = filter[k]

\* queryTasks: task[key] !== value for every entry of the filter; two Date
\* objects are never identical
queryMatch(task, filter) ==
    \A k \in DOMAIN filter :
        /\ k \in DOMAIN task
        /\ task[k] = filter[k]
        /\ k \notin {"createdAt", "updatedAt"}
        /\ (k = "dueDate" => filter[k] = NullDate)

\* what an operation does on an open database: the store after it, what it
\* resolves with, and "ok" or the code of the StorageError it rejects with
Request(kind, arg, db) ==
    CASE kind = "saveTask" ->
            [store |-> dbPut(db, arg), result |-> UNDEFINED, outcome |-> "ok"]
      [] kind = "loadTasks" ->
            [store |-> db, result |-> dbGetAll(db), outcome |-> "ok"]
      [] kind = "getTask" ->
            [store |-> db, result |-> dbGet(db, arg), outcome |-> "ok"]
      [] kind = "updateTask" ->
            IF existenceCheck(db, arg) # ""
            THEN [store |-> db, result |-> UNDEFINED, outcome |-> existenceCheck(db, arg)]
            ELSE [store |-> dbPut(db, arg), result |-> UNDEFINED, outcome |-> "ok"]
      [] kind = "deleteTask" ->
            [store |-> dbDelete(db, arg), result |-> UNDEFINED, outcome |-> "ok"]
      [] kind = "queryTasks" ->
            [store |-> db,
             result |-> SelectSeq(dbGetAll(db), LAMBDA t : queryMatch(t, arg)),
             outcome |-> "ok"]
      [] kind = "clearTasks" ->
            [store |-> <<>>, result |-> UNDEFINED, outcome |-> "ok"]

\* the calls of SpecConn: <<operation, argument>>
ConnCalls ==
    {<<"saveTask", t>> : t \in {MakeTask(1, PENDING, NullDate, UNDEFINED, TRUE),
                                MakeTask(2, PENDING, NullDate, UNDEFINED, FALSE)}}
    \cup {<<"updateTask", MakeTask(1, COMPLETED, NullDate, UNDEFINED, FALSE)>>}
    \cup {<<"getTask", 1>>, <<"deleteTask", 1>>}
    \cup {<<"loadTasks", 0>>, <<"clearTasks", 0>>}
    \cup {<<"queryTasks", [notificationSent |-> FALSE]>>}

ConnIdle ==
    [version |-> 0,         \* version of the stored database, 0 where there is none
     db |-> 0,              \* this.db: the handle held, 0 for null
     initialized |-> FALSE, \* this.initialized
     initPromise |-> 0,     \* this.initPromise: the promise held, 0 for null
     promises |-> <<>>,     \* the promises doInitDB returned: pending, resolved, or the
                            \* code of the StorageError they rejected with
     waiting |-> <<>>,      \* callers awaiting a pending promise, in the order they called
     open |-> {},           \* handles opened and not closed
     calls |-> 0,           \* calls made so far
     opens |-> 0,           \* databases opened since the handle held was last null
     outcomes |-> {},       \* <<initialization in flight at the call, outcome>> per initDB caller
     closedStore |-> <<>>,  \* <<store>> at the last close(), until an operation settles
     first |-> <<>>]        \* <<record>> of the first operation settled after a close()

InitConn ==
    /\ tasks = <<>>
    /\ tasksRef = <<>>
    /\ ops = EmptyBag
    /\ now = 0
    /\ nextId = 0
    /\ events = 0
    /\ returned = ""
    /\ hist = NoHist
    /\ ev = EvIdle
    /\ nt = NtIdle
    /\ supported \in BOOLEAN
    /\ \E l \in IF supported THEN StoreInits ELSE {<<>>} :
          /\ store = l
          /\ st = [ConnIdle EXCEPT !.version = IF l = <<>> THEN 0 ELSE DB_VERSION]

Pending(s) == {p \in 1..Len(s.promises) : s.promises[p] = "pending"}

\* the initialization in flight a caller meets: the oldest pending one, else the one it starts
InFlight(s) == IF Pending(s) = {} THEN Len(s.promises) + 1 ELSE Least(Pending(s))

\* a caller settles: an initDB caller's outcome is recorded, an operation runs
\* its request on the open database or rejects with the code of the failure
SettleCaller(acc, w, outcome) ==
    IF w.kind = "initDB"
    THEN [acc EXCEPT !.outcomes = @ \cup {<<w.joined, outcome>>}]
    ELSE LET r == IF outcome = "ok" THEN Request(w.kind, w.arg, acc.store)
                  ELSE [store |-> acc.store, result |-> UNDEFINED, outcome |-> outcome]
         IN  [acc EXCEPT
                !.store = r.store,
                !.closedStore = <<>>,
                !.first = IF acc.closedStore = <<>> THEN @
                          ELSE <<[kind |-> w.kind, arg |-> w.arg, from |-> acc.closedStore[1],
                                  result |-> r.result, outcome |-> r.outcome,
                                  store |-> r.store]>>]

RECURSIVE SettleAll(_, _, _)
SettleAll(acc, ws, outcome) ==
    IF ws = <<>> THEN acc
    ELSE SettleAll(SettleCaller(acc, Head(ws), outcome), Tail(ws), outcome)

Acc(s, db) ==
    [store |-> db, outcomes |-> s.outcomes, closedStore |-> s.closedStore, first |-> s.first]

Merge(s, acc) ==
    [s EXCEPT !.outcomes = acc.outcomes, !.closedStore = acc.closedStore, !.first = acc.first]

\* initDB() by the caller w, also as called by ensureDB
ConnCall(w) ==
    /\ st.calls < MaxConnCalls
    /\ LET s == [st EXCEPT !.calls = @ + 1]
           n == Len(st.promises) + 1
           me == [w EXCEPT !.joined = InFlight(st)]
       IN  IF isReady(st)
           THEN LET acc == SettleCaller(Acc(s, store), [w EXCEPT !.joined = 0], "ok")
                IN  st' = Merge(s, acc) /\ store' = acc.store
           ELSE IF joinsInit(st)
           THEN IF st.promises[st.initPromise] = "pending"
                THEN /\ st' = [s EXCEPT !.waiting = Append(@, [me EXCEPT !.p = st.initPromise])]
                     /\ store' = store
                ELSE LET acc == SettleCaller(Acc(s, store), me,
                                    IF st.promises[st.initPromise] = "resolved" THEN "ok"
                                    ELSE st.promises[st.initPromise])
                     IN  st' = Merge(s, acc) /\ store' = acc.store
           ELSE IF ~supported
           THEN LET acc == SettleCaller(Acc(s, store), me, "NOT_SUPPORTED")
                IN  /\ st' = [Merge(s, acc) EXCEPT !.promises = Append(@, "NOT_SUPPORTED"),
                                                   !.initPromise = n]
                    /\ store' = acc.store
           ELSE /\ st' = [s EXCEPT !.promises = Append(@, "pending"),
                                   !.initPromise = n,
                                   !.waiting = Append(@, [me EXCEPT !.p = n])]
                /\ store' = store
    /\ UNCHANGED <<tasks, tasksRef, ops, now, nextId, events, returned, hist, ev, supported, nt>>

\* storageService.initDB()
StorageService_initDB == ConnCall([kind |-> "initDB", arg |-> 0, p |-> 0, joined |-> 0])

\* a store operation: const db = await this.ensureDB(), then its requests
StorageService_operation(call) ==
    ConnCall([kind |-> call[1], arg |-> call[2], p |-> 0, joined |-> 0])

\* doInitDB: openDB settled
StorageService_doInitDB(p, openOk) ==
    /\ p \in Pending(st)
    /\ LET mine == SelectSeq(st.waiting, LAMBDA w : w.p = p)
           rest == SelectSeq(st.waiting, LAMBDA w : w.p # p)
       IN  IF openOk
           THEN LET s == [st EXCEPT !.db = p, !.initialized = TRUE,
                                    !.promises[p] = "resolved",
                                    !.version = DB_VERSION,
                                    !.open = @ \cup {p},
                                    !.opens = @ + 1,
                                    !.waiting = rest]
                    acc == SettleAll(Acc(s, openDB(store, st.version)), mine, "ok")
                IN  st' = Merge(s, acc) /\ store' = acc.store
           ELSE LET s == [st EXCEPT !.initPromise = 0,
                                    !.promises[p] = "INIT_FAILED",
                                    !.waiting = rest]
                    acc == SettleAll(Acc(s, store), mine, "INIT_FAILED")
                IN  st' = Merge(s, acc) /\ store' = acc.store
    /\ UNCHANGED <<tasks, tasksRef, ops, now, nextId, events, returned, hist, ev, supported, nt>>

\* storageService.close()
StorageService_close ==
    /\ st.calls < MaxConnCalls
    /\ st.db # 0
    /\ st' = [st EXCEPT !.calls = @ + 1,
                        !.open = @ \ {st.db},
                        !.db = 0,
                        !.initialized = FALSE,
                        !.initPromise = 0,
                        !.opens = 0,
                        !.closedStore = <<store>>,
                        !.first = <<>>]
    /\ UNCHANGED <<tasks, tasksRef, store, ops, now, nextId, events, returned, hist, ev, supported, nt>>

NextConn ==
    \/ StorageService_initDB
    \/ \E call \in ConnCalls : StorageService_operation(call)
    \/ \E p \in 1..(MaxConnCalls + 1) : \E openOk \in BOOLEAN : StorageService_doInitDB(p, openOk)
    \/ StorageService_close

SpecConn == InitConn /\ [][NextConn]_vars

-----------------------------------------------------------------------------
(* C14, C15: the connection *)

\* C14: a StorageService holds at most one open database at a time and opens
\* at most one between two moments it holds none; the initDB callers that
\* met the same initialization in flight got the same outcome.
C14_InitOnceSharedOutcome ==
    /\ Cardinality(st.open) <= 1
    /\ st.opens <= 1
    /\ \A a \in st.outcomes : \A b \in st.outcomes :
          (a[1] # 0 /\ a[1] = b[1]) => a[2] = b[2]

\* two initDB callers shared one initialization, which opened the database
C14_Witness ==
    /\ st.opens = 1
    /\ Len(st.promises) = 1
    /\ st.outcomes = {<<1, "ok">>}
    /\ st.calls >= 2
    /\ st.waiting = <<>>

\* C15: the first operation settled after a close(), its reopening not
\* failing, resolves with what it would return on the store as it was at the
\* close, and leaves the store it would leave.
C15_ReopensAfterClose ==
    (st.first # <<>> /\ st.first[1].outcome # "INIT_FAILED") =>
        LET f == st.first[1]
        IN  /\ f.outcome = Request(f.kind, f.arg, f.from).outcome
            /\ f.result = Request(f.kind, f.arg, f.from).result
            /\ f.store = Request(f.kind, f.arg, f.from).store

\* a loadTasks after a close() returned the record persisted before it
C15_Witness ==
    /\ st.first # <<>>
    /\ st.first[1].kind = "loadTasks"
    /\ st.first[1].outcome = "ok"
    /\ Len(st.first[1].result) = 1

-----------------------------------------------------------------------------
(* Spec: the running application.  useTasks has opened the database and    *)
(* loaded the tasks earlier sessions persisted; the evaluation timer is    *)
(* armed.                                                                  *)

\* the due date the forms of this model enter: its 5-minute reminder window opens at 0
DueA == 5 * 60 * 1000

\* what the form of TaskForm.handleSubmit can hold: a due date with a reminder, or neither
FormDates == {<<DueA, FIVE_MIN>>, <<NullDate, NONE>>}

\* CreateTaskInput values given to addTask
CreateInputs ==
    {[title |-> t, description |-> "", category |-> WORK, priority |-> MEDIUM,
      status |-> PENDING, dueDate |-> d[1], reminderOption |-> d[2]] :
        t \in {<<"a", " ">>, <<" ">>, <<>>},
        d \in {<<DueA, FIVE_MIN>>, <<InvalidDate, FIVE_MIN>>}}

\* UpdateTaskInput values App.handleUpdateTask builds from the form
EditPatches(status) ==
    {[title |-> t, description |-> "", category |-> WORK, priority |-> MEDIUM,
      status |-> status, dueDate |-> d[1], reminderOption |-> d[2],
      notificationSent |-> FALSE] :
        t \in {<<"a", " ">>, <<" ">>}, d \in FormDates}

\* the record an earlier session left under id: due, with a reminder not yet sent
StoredTasks(id) ==
    {MakeTask(id, PENDING, DueA, FIVE_MIN, FALSE)}

RECURSIVE StoredLists(_)
StoredLists(n) ==
    IF n = 0 THEN {<<>>}
    ELSE {Append(l, t) : l \in StoredLists(n - 1), t \in StoredTasks(n)}

Without(bag, op) == bag (-) SetToBag({op})

\* the step ends the suspended operation op
Finished(op) == op \in BagToSet(ops) /\ ops' = Without(ops, op)

statusIn(list, id) ==
    IF findIndex(list, id) = 0 THEN PENDING ELSE list[findIndex(list, id)].status

\* the operation suspended at `await storageService.updateTask(updatedTask)`
SuspendedUpdate(taskId, updatedTasks, origin) ==
    [kind |-> "update", origin |-> origin, id |-> taskId, pc |-> "get",
     task |-> updatedTasks[findIndex(updatedTasks, taskId)],
     list |-> updatedTasks]

RECURSIVE handleTasksNotified(_)
\* App.handleTasksNotified: taskIds.forEach(id => updateTask(id, {notificationSent: true})),
\* each call running up to its await
handleTasksNotified(notified) ==
    IF notified = <<>> THEN EmptyBag
    ELSE SetToBag({SuspendedUpdate(Head(notified).id,
                      TaskService_updateTask(Head(notified).id, [notificationSent |-> TRUE],
                                             tasksRef, now),
                      "notify")})
            (+) handleTasksNotified(Tail(notified))

\* ---- history bookkeeping ----

lead(t) == <<t.dueDate, reminderOptionOf(t)>>

\* ids whose dueDate or reminderOption differ between two collections
CycleChanged(old, new) ==
    {i \in Ids(old) \cap Ids(new) :
        lead(old[findIndex(old, i)]) # lead(new[findIndex(new, i)])}

Called(h, id) == [h EXCEPT !.asked = {a \in @ : a[1] # id}, !.batch = {}]

Failed(h) == [h EXCEPT !.failed = TRUE, !.batch = {}]

\* ---- useTasks.addTask ----

AddTask(taskData) ==
    /\ events < MaxEvents
    /\ events' = events + 1
    /\ IF createTaskError(taskData) # ""
       THEN /\ returned' = "null"
            /\ UNCHANGED <<ops, nextId, hist, supported, nt>>
       ELSE /\ ops' = ops (+) SetToBag({[kind |-> "add", origin |-> "ui",
                                          id |-> generateUUID(nextId),
                                          pc |-> "put",
                                          task |-> createTask(taskData, generateUUID(nextId), now)]})
            /\ nextId' = nextId + 1
            /\ hist' = [hist EXCEPT
                  !.asked = IF taskData.dueDate # NullDate /\ taskData.reminderOption # NONE
                            THEN @ \cup {<<generateUUID(nextId), taskData.reminderOption>>} ELSE @,
                  !.batch = {}]
            /\ UNCHANGED returned
    /\ UNCHANGED <<tasks, tasksRef, store, now, ev, st, supported, nt>>

\* saveTask resolved: setTasks(prev => taskService.addTask(newTask, prev)); return newTask
AddTaskDone(op) ==
    /\ op \in BagToSet(ops) /\ op.kind = "add"
    /\ supported
    /\ store' = dbPut(store, op.task)
    /\ tasks' = TaskService_addTask(op.task, tasks)
    /\ ops' = Without(ops, op)
    /\ returned' = "task"
    /\ UNCHANGED <<tasksRef, now, nextId, events, hist, ev, st, supported, nt>>

\* addTask putting the new task in the collection although saveTask rejected
AddTaskFail_KeepsTask(op) ==
    /\ op \in BagToSet(ops) /\ op.kind = "add"
    /\ tasks' = TaskService_addTask(op.task, tasks)
    /\ ops' = Without(ops, op)
    /\ returned' = "null"
    /\ hist' = Failed(hist)
    /\ UNCHANGED <<tasksRef, store, now, nextId, events, ev, st, supported, nt>>

\* saveTask rejected with a StorageError (a failed request, or NOT_SUPPORTED
\* out of ensureDB where the platform has no IndexedDB): setError; return null
AddTaskFail(op) ==
    /\ op \in BagToSet(ops) /\ op.kind = "add"
    /\ ops' = Without(ops, op)
    /\ returned' = "null"
    /\ hist' = Failed(hist)
    /\ UNCHANGED <<tasks, tasksRef, store, now, nextId, events, ev, st, supported, nt>>

\* ---- useTasks.updateTask, called by App.handleUpdateTask ----

UpdateTask(taskId, updates) ==
    /\ events < MaxEvents
    /\ events' = events + 1
    /\ IF updateTaskError(taskId, updates, tasksRef) # ""
       THEN /\ returned' = "false"
            /\ UNCHANGED <<ops, hist, supported, nt>>
       ELSE /\ ops' = ops (+) SetToBag({SuspendedUpdate(taskId,
                          TaskService_updateTask(taskId, updates, tasksRef, now), "ui")})
            /\ hist' = Called(hist, taskId)
            /\ UNCHANGED returned
    /\ UNCHANGED <<tasks, tasksRef, store, now, nextId, ev, st, supported, nt>>

\* ---- useTasks.toggleTaskStatus ----

ToggleTaskStatus(taskId) ==
    /\ events < MaxEvents
    /\ events' = events + 1
    /\ IF findIndex(tasksRef, taskId) = 0
       THEN /\ returned' = "false"
            /\ UNCHANGED <<ops, hist, supported, nt>>
       ELSE /\ ops' = ops (+) SetToBag({SuspendedUpdate(taskId,
                          TaskService_toggleTaskStatus(taskId, tasksRef, now), "toggle")})
            /\ hist' = Called(hist, taskId)
            /\ UNCHANGED returned
    /\ UNCHANGED <<tasks, tasksRef, store, now, nextId, ev, st, supported, nt>>

\* ---- StorageService.updateTask under updateTask / toggleTaskStatus ----

\* db.get resolved: a missing record throws StorageError(.., 'WRITE_FAILED'),
\* which the hook catches: setError; return false
UpdateGet(op) ==
    /\ op \in BagToSet(ops) /\ op.kind = "update" /\ op.pc = "get"
    /\ supported
    /\ IF existenceCheck(store, op.task) = ""
       THEN /\ ops' = Without(ops, op) (+) SetToBag({[op EXCEPT !.pc = "put"]})
            /\ UNCHANGED <<returned, hist, supported, nt>>
       ELSE /\ ops' = Without(ops, op)
            /\ returned' = "false"
            /\ hist' = Failed(hist)
    /\ UNCHANGED <<tasks, tasksRef, store, now, nextId, events, ev, st, supported, nt>>

\* db.put resolved: setTasks(updatedTasks); return true
UpdatePut(op) ==
    /\ op \in BagToSet(ops) /\ op.kind = "update" /\ op.pc = "put"
    /\ store' = dbPut(store, op.task)
    /\ tasks' = op.list
    /\ ops' = Without(ops, op)
    /\ returned' = "true"
    /\ hist' = [hist EXCEPT !.dispatched = @ \ CycleChanged(tasks, op.list)]
    /\ UNCHANGED <<tasksRef, now, nextId, events, ev, st, supported, nt>>

\* db.get or db.put rejected: StorageError 'WRITE_FAILED'; setError; return false
UpdateFail(op) ==
    /\ op \in BagToSet(ops) /\ op.kind = "update"
    /\ ops' = Without(ops, op)
    /\ returned' = "false"
    /\ hist' = Failed(hist)
    /\ UNCHANGED <<tasks, tasksRef, store, now, nextId, events, ev, st, supported, nt>>

\* ---- useTasks.deleteTask ----

DeleteTask(taskId) ==
    /\ events < MaxEvents
    /\ events' = events + 1
    /\ ops' = ops (+) SetToBag({[kind |-> "delete", origin |-> "ui", id |-> taskId, pc |-> "delete"]})
    /\ hist' = Called(hist, taskId)
    /\ UNCHANGED <<tasks, tasksRef, store, now, nextId, returned, ev, st, supported, nt>>

\* db.delete resolved: setTasks(prev => taskService.deleteTask(taskId, prev)); return true
DeleteTaskDone(op) ==
    /\ op \in BagToSet(ops) /\ op.kind = "delete"
    /\ supported
    /\ store' = dbDelete(store, op.id)
    /\ tasks' = TaskService_deleteTask(op.id, tasks)
    /\ ops' = Without(ops, op)
    /\ returned' = "true"
    /\ hist' = [hist EXCEPT !.deleted = IF dbHas(store, op.id) \/ op.id \in Ids(tasks)
                                        THEN @ \cup {op.id} ELSE @]
    /\ UNCHANGED <<tasksRef, now, nextId, events, ev, st, supported, nt>>

\* db.delete rejected: StorageError 'DELETE_FAILED'; setError; return false
DeleteTaskFail(op) ==
    /\ op \in BagToSet(ops) /\ op.kind = "delete"
    /\ ops' = Without(ops, op)
    /\ returned' = "false"
    /\ hist' = Failed(hist)
    /\ UNCHANGED <<tasks, tasksRef, store, now, nextId, events, ev, st, supported, nt>>

\* ---- React commits a render: the callbacks capture `tasks`, and the effect
\* of App calls updateTasks(tasks) ----

Render ==
    /\ tasksRef # tasks
    /\ tasksRef' = tasks
    /\ UNCHANGED <<tasks, store, ops, now, nextId, events, returned, hist, ev, st, supported, nt>>

\* ---- useNotification.checkReminders: the interval callback, also returned
\* to the caller of the hook ----

MarkPending == \E op \in BagToSet(ops) : op.origin = "notify"

\* unmodified tasks of the collection whose asked-for reminder window holds the clock
AskedInWindow ==
    {a[1] : a \in {b \in hist.asked :
        /\ findIndex(tasksRef, b[1]) # 0
        /\ tasksRef[findIndex(tasksRef, b[1])].dueDate - LeadDuration(b[2]) <= now
        /\ now <= tasksRef[findIndex(tasksRef, b[1])].dueDate + 3600000}}

CheckReminders ==
    LET notifiedTasks == checkTasksForNotification(tasksRef, now)
    IN  /\ events + Len(notifiedTasks) <= MaxEvents
        /\ events' = events + Len(notifiedTasks)
        /\ ops' = ops (+) handleTasksNotified(notifiedTasks)
        /\ hist' = [hist EXCEPT
              !.inWindow = @ \cup AskedInWindow,
              !.dispatched = @ \cup Ids(notifiedTasks),
              !.batch = IF notifiedTasks = <<>> THEN @
                        ELSE IF ops = EmptyBag /\ tasksRef = tasks THEN Ids(notifiedTasks)
                        ELSE {}]
        /\ UNCHANGED <<tasks, tasksRef, store, now, nextId, returned, ev, st, supported, nt>>

\* ---- an hour passes ----

Advance ==
    /\ events < MaxEvents
    /\ events' = events + 1
    /\ now' = now + HOUR
    /\ UNCHANGED <<tasks, tasksRef, store, ops, nextId, returned, hist, ev, st, supported, nt>>

\* loadTasks on mount: the stored tasks, or none where initDB rejected with NOT_SUPPORTED
Init ==
    /\ supported \in BOOLEAN
    /\ \E n \in 0..(IF supported THEN MaxStored ELSE 0) : \E l \in StoredLists(n) :
          /\ store = l
          /\ tasks = dbGetAll(l)
          /\ tasksRef = dbGetAll(l)
          /\ nextId = n
    /\ ops = EmptyBag
    /\ now = 0
    /\ events = 0
    /\ returned = ""
    /\ hist = NoHist
    /\ ev = EvIdle
    /\ nt = NtIdle
    /\ st = StIdle

Next ==
    \/ \E taskData \in CreateInputs : AddTask(taskData)
    \/ \E op \in BagToSet(ops) : AddTaskDone(op)
    \/ \E op \in BagToSet(ops) : AddTaskFail(op)
    \/ \E taskId \in 1..nextId : \E updates \in EditPatches(statusIn(tasksRef, taskId)) :
          UpdateTask(taskId, updates)
    \/ \E taskId \in 1..nextId : ToggleTaskStatus(taskId)
    \/ \E op \in BagToSet(ops) : UpdateGet(op)
    \/ \E op \in BagToSet(ops) : UpdatePut(op)
    \/ \E op \in BagToSet(ops) : UpdateFail(op)
    \/ \E taskId \in 1..nextId : DeleteTask(taskId)
    \/ \E op \in BagToSet(ops) : DeleteTaskDone(op)
    \/ \E op \in BagToSet(ops) : DeleteTaskFail(op)
    \/ Render
    \/ CheckReminders
    \/ Advance

Spec == Init /\ [][Next]_vars

-----------------------------------------------------------------------------
(* SpecService: the TaskService called directly, as useTasks and its other *)
(* consumers call it: createTask followed by addTask, updateTask with any  *)
(* UpdateTaskInput, toggleTaskStatus, deleteTask. `tasks` is the list the   *)
(* caller holds and hands in; `returned` is "task" or "list" for a result,  *)
(* or the code of the TaskValidationError thrown; `now` is what new Date()  *)
(* gives; `hist` holds the last two calls, the latest first.                *)

\* a title of 101 characters
LongTitle == [i \in 1..101 |-> "x"]

ServiceTitles == {<<"a">>, <<" ", "a", " ">>, <<" ">>, <<>>, LongTitle}

\* a CreateTaskInput that validates
ServiceInput ==
    [title |-> <<" ", "a", " ">>, description |-> "d", category |-> WORK,
     priority |-> MEDIUM, status |-> PENDING, dueDate |-> DueA,
     reminderOption |-> FIVE_MIN]

\* CreateTaskInput values: ServiceInput with one or two fields replaced
ServiceInputs ==
    {[ServiceInput EXCEPT !.title = t] : t \in ServiceTitles}
        \cup {[ServiceInput EXCEPT !.description = ""],
              [ServiceInput EXCEPT !.status = COMPLETED],
              [ServiceInput EXCEPT !.dueDate = NullDate, !.reminderOption = NONE],
              [ServiceInput EXCEPT !.dueDate = InvalidDate],
              [ServiceInput EXCEPT !.title = <<" ">>, !.dueDate = InvalidDate]}

\* UpdateTaskInput values: Partial<Omit<Task, 'id' | 'createdAt'>>
ServicePatches ==
    {[title |-> t] : t \in ServiceTitles}
        \cup {[dueDate |-> d] : d \in {DueA, NullDate, InvalidDate}}
        \cup {[notificationSent |-> TRUE], [reminderOption |-> FIVE_MIN],
              [title |-> <<" ", "b">>, status |-> COMPLETED],
              [status |-> COMPLETED, updatedAt |-> 0]}

\* the list the caller starts with: empty, or one task with a due date and a
\* reminder, sent or not, alone or followed by a second task
ServiceLists ==
    {<<>>}
        \cup {<<MakeTask(1, PENDING, DueA, FIVE_MIN, n)>> : n \in BOOLEAN}
        \cup {<<MakeTask(1, PENDING, DueA, FIVE_MIN, TRUE),
                MakeTask(2, COMPLETED, NullDate, NONE, FALSE)>>}

\* a call of the TaskService as the caller saw it
ServiceCall(call, taskId, input, result, after) ==
    [call |-> call,         \* the method
     id |-> taskId,         \* its taskId argument, 0 for createTask
     input |-> input,       \* its taskData or updates argument
     before |-> tasks,      \* the list handed in
     at |-> now,            \* the instant of the call
     result |-> result,     \* "task", "list" or the error code
     after |-> after]       \* the list the caller holds afterwards

Recorded(c) == IF hist = <<>> THEN <<c>> ELSE <<c, hist[1]>>

InitService ==
    /\ tasks \in ServiceLists
    /\ nextId = Len(tasks)
    /\ tasksRef = <<>>
    /\ store = <<>>
    /\ supported = TRUE
    /\ ops = EmptyBag
    /\ now = 1
    /\ events = 0
    /\ returned = ""
    /\ hist = <<>>
    /\ ev = EvIdle
    /\ nt = NtIdle
    /\ st = StIdle

\* the call ends with `result` and leaves the caller with the list `after`
ServiceReturn(call, taskId, input, result, after) ==
    /\ events < MaxServiceCalls
    /\ events' = events + 1
    /\ returned' = result
    /\ tasks' = after
    /\ hist' = Recorded(ServiceCall(call, taskId, input, result, after))
    /\ UNCHANGED <<tasksRef, store, supported, ops, now, ev, st, nt>>

\* newTask = taskService.createTask(taskData); taskService.addTask(newTask, tasks)
TaskService_createTask(taskData) ==
    IF createTaskError(taskData) # ""
    THEN /\ ServiceReturn("createTask", 0, taskData, createTaskError(taskData), tasks)
         /\ UNCHANGED nextId
    ELSE /\ ServiceReturn("createTask", 0, taskData, "task",
              TaskService_addTask(createTask(taskData, generateUUID(nextId), now), tasks))
         /\ nextId' = nextId + 1

\* tasks = taskService.updateTask(taskId, updates, tasks)
TaskService_update(taskId, updates) ==
    /\ IF updateTaskError(taskId, updates, tasks) # ""
       THEN ServiceReturn("updateTask", taskId, updates,
                updateTaskError(taskId, updates, tasks), tasks)
       ELSE ServiceReturn("updateTask", taskId, updates, "list",
                TaskService_updateTask(taskId, updates, tasks, now))
    /\ UNCHANGED nextId

\* tasks = taskService.toggleTaskStatus(taskId, tasks)
TaskService_toggle(taskId) ==
    /\ IF findIndex(tasks, taskId) = 0
       THEN ServiceReturn("toggleTaskStatus", taskId, <<>>, "TASK_NOT_FOUND", tasks)
       ELSE ServiceReturn("toggleTaskStatus", taskId, <<>>, "list",
                TaskService_toggleTaskStatus(taskId, tasks, now))
    /\ UNCHANGED nextId

\* tasks = taskService.deleteTask(taskId, tasks)
TaskService_delete(taskId) ==
    /\ ServiceReturn("deleteTask", taskId, <<>>, "list", TaskService_deleteTask(taskId, tasks))
    /\ UNCHANGED nextId

\* time passes between two calls
ServiceAdvance ==
    /\ events < MaxServiceCalls
    /\ events' = events + 1
    /\ now' = now + 1
    /\ UNCHANGED <<tasks, tasksRef, store, supported, ops, nextId, returned, hist, ev, st, nt>>

NextService ==
    \/ \E taskData \in ServiceInputs : TaskService_createTask(taskData)
    \/ \E taskId \in 1..(nextId + 1) : \E updates \in ServicePatches :
          TaskService_update(taskId, updates)
    \/ \E taskId \in 1..(nextId + 1) : TaskService_toggle(taskId)
    \/ \E taskId \in 1..(nextId + 1) : TaskService_delete(taskId)
    \/ ServiceAdvance

SpecService == InitService /\ [][NextService]_vars

-----------------------------------------------------------------------------
(* SpecLoop: a component that uses useNotification. Its effects run on     *)
(* mount and when their dependencies change, their cleanups before a re-run *)
(* and on unmount; the platform calls the callbacks of the armed timers.    *)
(* `tasksRef` is tasksRef.current, `now` the instant of every evaluation,   *)
(* `nt` the hook, the platform's timers and permission, and what the last   *)
(* run of checkReminders did. A callback handed to the hook may throw, and  *)
(* so may `new Notification`.                                               *)

\* the longest batch of this model
MaxBatch == 2

\* the collections App hands to updateTasks: tasks inside their reminder window at 0
LoopLists ==
    {<<>>,
     <<MakeTask(1, PENDING, DueA, FIVE_MIN, FALSE)>>,
     <<MakeTask(1, PENDING, DueA, FIVE_MIN, FALSE), MakeTask(2, PENDING, DueA, FIVE_MIN, FALSE)>>,
     <<MakeTask(1, COMPLETED, DueA, FIVE_MIN, FALSE), MakeTask(2, PENDING, DueA, FIVE_MIN, FALSE)>>}

Permissions == {"granted", "denied", "default", "unsupported"}

\* NotificationService.isSupported
isSupported(n) == n.permission # "unsupported"

\* NotificationService.getPermissionStatus
getPermissionStatus(n) == n.permission

IdSeq(list) == [i \in 1..Len(list) |-> list[i].id]

\* processTaskReminders choosing the fallback although the permission is granted
processTaskReminders_AlwaysFallback(list, clock, permission, callback, sendOk, callbackThrows) ==
    LET tasksToRemind == checkTasksForNotification(list, clock)
    IN  [permission |-> permission,
         batch |-> IdSeq(tasksToRemind),
         natives |-> <<>>,
         fallbacks |-> IF tasksToRemind # <<>> /\ callback
                       THEN <<IdSeq(tasksToRemind)>> ELSE <<>>,
         threw |-> tasksToRemind # <<>> /\ callback /\ callbackThrows,
         returned |-> IdSeq(tasksToRemind)]

\* processTaskReminders giving up the batch at the first notification that fails
processTaskReminders_StopsAtFailure(list, clock, permission, callback, sendOk, callbackThrows) ==
    LET tasksToRemind == checkTasksForNotification(list, clock)
        failed == {i \in 1..Len(tasksToRemind) : ~sendOk[i]}
        upto == IF failed = {} THEN Len(tasksToRemind)
                ELSE CHOOSE i \in failed : \A j \in failed : i <= j
    IN  [permission |-> permission,
         batch |-> IdSeq(tasksToRemind),
         natives |-> IF permission = "granted"
                     THEN [i \in 1..upto |-> [tag |-> tasksToRemind[i].id, sent |-> sendOk[i]]]
                     ELSE <<>>,
         fallbacks |-> IF tasksToRemind # <<>> /\ permission # "granted" /\ callback
                       THEN <<IdSeq(tasksToRemind)>> ELSE <<>>,
         threw |-> tasksToRemind # <<>> /\ permission # "granted" /\ callback /\ callbackThrows,
         returned |-> IdSeq(tasksToRemind)]

\* NotificationService.processTaskReminders. sendOk[i] says whether `new
\* Notification` for the i-th task succeeds (sendNotification catches its
\* exception and returns false); callbackThrows whether inAppReminderCallback
\* throws, which nothing here catches.
processTaskReminders(list, clock, permission, callback, sendOk, callbackThrows) ==
    LET tasksToRemind == checkTasksForNotification(list, clock)
    IN  [permission |-> permission,
         batch |-> IdSeq(tasksToRemind),
         natives |-> IF permission = "granted"
                     THEN [i \in 1..Len(tasksToRemind) |->
                              [tag |-> tasksToRemind[i].id, sent |-> sendOk[i]]]
                     ELSE <<>>,
         fallbacks |-> IF tasksToRemind # <<>> /\ permission # "granted" /\ callback
                       THEN <<IdSeq(tasksToRemind)>> ELSE <<>>,
         threw |-> tasksToRemind # <<>> /\ permission # "granted" /\ callback /\ callbackThrows,
         returned |-> IdSeq(tasksToRemind)]

\* useNotification.checkReminders, called by `source` while tasksRef.current
\* is `list`: the hook afterwards
checkReminders(n, list, source, sendOk, callbackThrows, markerThrows) ==
    LET callback == n.onInAppReminder \/ n.inAppReminderCallback
        p == processTaskReminders(list, now, getPermissionStatus(n), callback,
                                  sendOk, callbackThrows)
        notifies == ~p.threw /\ p.returned # <<>> /\ n.onTasksNotified
        threw == IF p.threw THEN "onInAppReminder"
                 ELSE IF notifies /\ markerThrows THEN "onTasksNotified"
                 ELSE ""
    IN  [n EXCEPT
            !.inAppReminderCallback = callback,
            !.pendingReminders = IF p.threw THEN @ ELSE p.returned,
            !.last = [source |-> source,
                      stopped |-> ~n.mounted,
                      permission |-> p.permission,
                      batch |-> p.batch,
                      natives |-> p.natives,
                      fallbacks |-> p.fallbacks,
                      marked |-> IF notifies THEN <<p.returned>> ELSE <<>>,
                      returned |-> IF p.threw THEN <<>> ELSE p.returned,
                      threw |-> threw,
                      escaped |-> threw # "",
                      running |-> n.timers # {}]]

\* intervalRef.current = setInterval(() => checkReminders(), checkInterval)
intervalEffect(n) ==
    [n EXCEPT !.nextTimer = @ + 1,
              !.intervalRef = n.nextTimer + 1,
              !.timers = @ \cup {n.nextTimer + 1},
              !.last.running = TRUE]

\* the cleanup of the interval effect leaving the timer armed
intervalCleanup_KeepsTimer(n) == [n EXCEPT !.intervalRef = 0]

\* the cleanup of the interval effect
intervalCleanup(n) ==
    IF n.intervalRef # 0
    THEN [n EXCEPT !.timers = @ \ {n.intervalRef}, !.intervalRef = 0]
    ELSE n

\* the permission effect: const permissionCheckInterval = setInterval(checkPermission, 5000)
pollEffect(n) ==
    IF ~isSupported(n) THEN n
    ELSE [n EXCEPT !.nextTimer = @ + 1,
                   !.pollRef = n.nextTimer + 1,
                   !.polls = @ \cup {n.nextTimer + 1}]

\* the cleanup of the permission effect leaving the timer armed
pollCleanup_KeepsTimer(n) == [n EXCEPT !.pollRef = 0]

\* the cleanup of the permission effect
pollCleanup(n) ==
    IF n.pollRef # 0
    THEN [n EXCEPT !.polls = @ \ {n.pollRef}, !.pollRef = 0]
    ELSE n

\* the component is removed: the cleanups of its effects run
Teardown(n) == [pollCleanup(intervalCleanup(n)) EXCEPT !.mounted = FALSE]

Step(n) == [n EXCEPT !.steps = @ + 1]

SendOutcomes == [1..MaxBatch -> BOOLEAN]

InitLoop ==
    /\ AppIdle
    /\ ev = EvIdle
    /\ st = StIdle
    /\ \E p \in Permissions : \E a \in BOOLEAN : \E b \in BOOLEAN :
          nt = [NtIdle EXCEPT !.permission = p,
                              !.onInAppReminder = a,
                              !.onTasksNotified = b]

\* the component mounts: useState(getPermissionStatus()), useRef([]), then
\* the effects in order: checkReminders() on the empty list, the timer, the poll
LoopMount ==
    /\ ~nt.mounted
    /\ nt.steps < MaxLoopSteps
    /\ tasksRef' = <<>>
    /\ \E sendOk \in SendOutcomes :
          LET fresh == [nt EXCEPT !.mounted = TRUE,
                                  !.permissionStatus = getPermissionStatus(nt),
                                  !.pendingReminders = <<>>]
              checked == checkReminders(fresh, <<>>, "effect", sendOk, FALSE, FALSE)
          IN  nt' = Step(pollEffect(intervalEffect(checked)))
    /\ UNCHANGED <<tasks, store, supported, ops, now, nextId, events, returned, hist, ev, st>>

\* App's effect: updateTasks(tasks)
LoopUpdateTasks(list) ==
    /\ nt.mounted
    /\ tasksRef # list
    /\ tasksRef' = list
    /\ UNCHANGED <<tasks, store, supported, ops, now, nextId, events, returned, hist, ev, st, nt>>

\* options.checkInterval changes: the cleanup of the interval effect, then the
\* effect again. An exception out of the effect's checkReminders() reaches
\* React before setInterval is called, and React removes the component.
LoopSetInterval ==
    /\ nt.mounted
    /\ nt.steps < MaxLoopSteps
    /\ \E sendOk \in SendOutcomes : \E callbackThrows \in BOOLEAN : \E markerThrows \in BOOLEAN :
          LET cleaned == [intervalCleanup(nt) EXCEPT !.checkInterval = @ + 1]
              checked == checkReminders(cleaned, tasksRef, "effect", sendOk, callbackThrows,
                                         markerThrows)
          IN  nt' = Step(IF checked.last.escaped THEN Teardown(checked)
                         ELSE intervalEffect(checked))
    /\ UNCHANGED <<tasks, tasksRef, store, supported, ops, now, nextId, events, returned,
                   hist, ev, st>>

\* the platform calls the callback of an armed evaluation timer; an exception
\* out of it is reported by the platform and the timer stays armed
LoopTick(t) ==
    /\ t \in nt.timers
    /\ nt.steps < MaxLoopSteps
    /\ \E sendOk \in SendOutcomes : \E callbackThrows \in BOOLEAN : \E markerThrows \in BOOLEAN :
          nt' = Step(checkReminders(nt, tasksRef, "timer", sendOk, callbackThrows,
                                    markerThrows))
    /\ UNCHANGED <<tasks, tasksRef, store, supported, ops, now, nextId, events, returned,
                   hist, ev, st>>

\* the platform calls checkPermission of an armed poll timer; a new status
\* re-renders and runs the permission effect again
LoopPoll(t) ==
    /\ t \in nt.polls
    /\ nt.steps < MaxLoopSteps
    /\ LET polled == [nt EXCEPT !.polled = @ + 1]
       IN  nt' = Step(IF getPermissionStatus(nt) # nt.permissionStatus /\ nt.mounted
                      THEN pollEffect(pollCleanup(
                               [polled EXCEPT !.permissionStatus = getPermissionStatus(nt)]))
                      ELSE polled)
    /\ UNCHANGED <<tasks, tasksRef, store, supported, ops, now, nextId, events, returned,
                   hist, ev, st>>

\* the user changes the permission in the browser
LoopPermission(p) ==
    /\ isSupported(nt)
    /\ p \in Permissions \ {"unsupported", nt.permission}
    /\ nt.steps < MaxLoopSteps
    /\ nt' = Step([nt EXCEPT !.permission = p])
    /\ UNCHANGED <<tasks, tasksRef, store, supported, ops, now, nextId, events, returned,
                   hist, ev, st>>

\* requestPermission asking the platform whenever it has the API
prompts_WheneverSupported(n) == isSupported(n)

\* NotificationService.requestPermission: it goes on to
\* Notification.requestPermission() only from 'default'
prompts(n) == isSupported(n) /\ n.permission = "default"

\* setPermissionStatus(status) of a mounted hook: a new status re-renders and
\* runs the permission effect again
setPermissionStatus(n, status) ==
    IF n.mounted /\ status # n.permissionStatus
    THEN pollEffect(pollCleanup([n EXCEPT !.permissionStatus = status]))
    ELSE n

\* useNotification.requestPermission up to its await, or to its end where
\* the service answers without asking the platform
LoopRequestPermission ==
    /\ ~nt.request.prompting
    /\ nt.steps < MaxLoopSteps
    /\ nt' = Step(IF prompts(nt)
                  THEN [nt EXCEPT !.request = [status |-> getPermissionStatus(nt),
                                               prompted |-> TRUE,
                                               prompting |-> TRUE,
                                               prompts |-> @.prompts + 1,
                                               result |-> ""]]
                  ELSE [setPermissionStatus(nt, getPermissionStatus(nt))
                           EXCEPT !.request = [status |-> getPermissionStatus(nt),
                                               prompted |-> FALSE,
                                               prompting |-> FALSE,
                                               prompts |-> @.prompts,
                                               result |-> getPermissionStatus(nt)]])
    /\ UNCHANGED <<tasks, tasksRef, store, supported, ops, now, nextId, events, returned,
                   hist, ev, st>>

\* what the prompt ends with: the user's choice ('default' when dismissed), or
\* an exception of a platform without the promise form
PromptOutcomes == {"granted", "denied", "default", "throws"}

\* Notification.requestPermission() settles: the status it resolved to, or
\* 'unsupported' from the catch; then setPermissionStatus(status)
LoopPromptSettled(outcome) ==
    /\ nt.request.prompting
    /\ LET status == IF outcome = "throws" THEN "unsupported" ELSE outcome
           decided == [nt EXCEPT !.permission = IF outcome = "throws" THEN @ ELSE outcome,
                                 !.request.prompting = FALSE,
                                 !.request.result = status]
       IN  nt' = setPermissionStatus(decided, status)
    /\ UNCHANGED <<tasks, tasksRef, store, supported, ops, now, nextId, events, returned,
                   hist, ev, st>>

\* App.handleTasksNotified and the render after it: the marked tasks come back
\* through updateTasks
LoopMarked ==
    /\ nt.mounted
    /\ nt.last.marked # <<>>
    /\ nt.last.threw # "onTasksNotified"
    /\ \E i \in 1..Len(tasksRef) :
          tasksRef[i].id \in {nt.last.marked[1][k] : k \in 1..Len(nt.last.marked[1])}
              /\ ~tasksRef[i].notificationSent
    /\ tasksRef' = [i \in 1..Len(tasksRef) |->
                      IF tasksRef[i].id \in {nt.last.marked[1][k] : k \in 1..Len(nt.last.marked[1])}
                      THEN [tasksRef[i] EXCEPT !.notificationSent = TRUE]
                      ELSE tasksRef[i]]
    /\ UNCHANGED <<tasks, store, supported, ops, now, nextId, events, returned, hist, ev, st, nt>>

\* the component unmounts
LoopUnmount ==
    /\ nt.mounted
    /\ nt.steps < MaxLoopSteps
    /\ nt' = Step(Teardown(nt))
    /\ UNCHANGED <<tasks, tasksRef, store, supported, ops, now, nextId, events, returned,
                   hist, ev, st>>

NextLoop ==
    \/ LoopMount
    \/ \E list \in LoopLists : LoopUpdateTasks(list)
    \/ LoopSetInterval
    \/ \E t \in nt.timers : LoopTick(t)
    \/ \E t \in nt.polls : LoopPoll(t)
    \/ \E p \in Permissions : LoopPermission(p)
    \/ LoopRequestPermission
    \/ \E outcome \in PromptOutcomes : LoopPromptSettled(outcome)
    \/ LoopMarked
    \/ LoopUnmount

SpecLoop == InitLoop /\ [][NextLoop]_vars

-----------------------------------------------------------------------------
(* C18, C20: the task attributes the TaskService keeps *)

\* C18: every task without a due date has no reminder lead (a missing
\* reminderOption counts as none) and notificationSent false; an updateTask
\* whose patch clears dueDate leaves the task so.
C18_UnsetDueHasNoReminder ==
    \A i \in 1..Len(tasks) :
        tasks[i].dueDate = NullDate =>
            /\ reminderOptionOf(tasks[i]) \in {NONE, UNDEFINED}
            /\ ~tasks[i].notificationSent

\* the longest title the data model allows (TaskForm.validateForm)
TitleLimit == 100

\* C20: createTask fails for a title of more than 100 characters, so no task
\* the TaskService created has a title longer than that.
C20_TitleWithinLimit ==
    \A i \in 1..Len(tasks) : Len(tasks[i].title) <= TitleLimit

-----------------------------------------------------------------------------
(* C16: a platform without IndexedDB *)

\* C16: without IndexedDB an operation that finishes reports success, and a
\* created task is in the in-memory collection.
C16_DegradesToSessionOnly ==
    [][~supported =>
          \A op \in BagToSet(ops) :
              Finished(op) =>
                  /\ returned' \in {"task", "true"}
                  /\ op.kind = "add" => op.id \in Ids(tasks')]_vars

-----------------------------------------------------------------------------
(* C19: validation before persistence *)

\* empty, or nothing but whitespace
Blank(title) == \A i \in 1..Len(title) : title[i] \in Whitespace

\* the step produced no task, wrote nothing and left the collection alone
Rejected ==
    /\ returned' = "null"
    /\ UNCHANGED <<tasks, store, ops, nextId, nt>>

\* C19: addTask with a blank title fails with EMPTY_TITLE, with a malformed
\* dueDate with INVALID_DATE; either way no task is produced, nothing is
\* written to the store and the collection is unchanged. No task in the
\* collection or in the store ever has a blank title.
C19_InvalidInputRejected ==
    /\ [][\A d \in CreateInputs :
              AddTask(d) =>
                  /\ Blank(d.title) =>
                        createTaskError(d) = "EMPTY_TITLE" /\ Rejected
                  /\ (~Blank(d.title) /\ d.dueDate = InvalidDate) =>
                        createTaskError(d) = "INVALID_DATE" /\ Rejected]_vars
    /\ [](/\ \A i \in 1..Len(tasks) : ~Blank(tasks[i].title)
          /\ \A i \in DOMAIN store : ~Blank(store[i].title))

\* an addTask was rejected by the validation: nothing is in flight, no store
\* request failed, and the collection and the store are as loaded
C19_Witness ==
    /\ returned = "null"
    /\ events = 1
    /\ ~hist.failed
    /\ ops = EmptyBag
    /\ nextId = Len(tasks)
    /\ tasks = dbGetAll(store)

-----------------------------------------------------------------------------
(* C21 - C24: the operations of the TaskService *)

\* the latest call of the TaskService was `call`
LastCall(call) == hist # <<>> /\ hist[1].call = call

\* C21: createTask on a valid input returns a task with a fresh id, the
\* trimmed title, the input's description, status, category, priority,
\* dueDate and reminderOption, notificationSent false, and createdAt =
\* updatedAt = the instant of the call.
C21_CreatedTaskFields ==
    (/\ LastCall("createTask")
     /\ ~Blank(hist[1].input.title)
     /\ hist[1].input.dueDate # InvalidDate)
        => LET d == hist[1].input
               t == tasks[Len(tasks)]
           IN  /\ hist[1].result = "task"
               /\ Len(tasks) = Len(hist[1].before) + 1
               /\ t.id \notin Ids(hist[1].before)
               /\ t.title = trim(d.title)
               /\ t.description = d.description
               /\ t.status = d.status
               /\ t.category = d.category
               /\ t.priority = d.priority
               /\ t.dueDate = d.dueDate
               /\ reminderOptionOf(t) = d.reminderOption
               /\ ~t.notificationSent
               /\ t.createdAt = hist[1].at
               /\ t.updatedAt = hist[1].at

\* C22: updateTask fails with TASK_NOT_FOUND when the id is not in the
\* list, with EMPTY_TITLE when the patch holds a blank title, with
\* INVALID_DATE when it holds a malformed dueDate; a failed call leaves the
\* list as it was.
C22_UpdateRejections ==
    LastCall("updateTask")
        => LET h == hist[1]
               present == h.id \in Ids(h.before)
               badTitle == "title" \in DOMAIN h.input /\ Blank(h.input.title)
               badDate == "dueDate" \in DOMAIN h.input /\ h.input.dueDate = InvalidDate
           IN  /\ ~present => h.result = "TASK_NOT_FOUND"
               /\ (present /\ badTitle) => h.result = "EMPTY_TITLE"
               /\ (present /\ ~badTitle /\ badDate) => h.result = "INVALID_DATE"
               /\ h.result # "list" => tasks = h.before

\* an updateTask of a task of the list was rejected for its malformed dueDate
C22_Witness ==
    /\ LastCall("updateTask")
    /\ hist[1].result = "INVALID_DATE"
    /\ hist[1].id \in Ids(tasks)
    /\ tasks = hist[1].before

\* C23: a successful updateTask returns a list of the same length and order
\* in which the target has every patched field replaced (the title trimmed),
\* updatedAt set to the instant of the call, and id, createdAt and the
\* unpatched fields as before; the other tasks are as before.
C23_UpdateFrame ==
    (LastCall("updateTask") /\ hist[1].result = "list")
        => LET h == hist[1]
               u == h.input
               i == findIndex(h.before, h.id)
               old == h.before[i]
               new == tasks[i]
           IN  /\ Len(tasks) = Len(h.before)
               /\ \A j \in 1..Len(tasks) : j # i => tasks[j] = h.before[j]
               /\ DOMAIN new = DOMAIN old \cup DOMAIN u
               /\ new.id = old.id
               /\ new.createdAt = old.createdAt
               /\ new.updatedAt = h.at
               /\ "title" \in DOMAIN u => new.title = trim(u.title)
               /\ \A f \in DOMAIN u \ {"title", "updatedAt"} : new[f] = u[f]
               /\ \A f \in DOMAIN old \ (DOMAIN u \cup {"updatedAt"}) : new[f] = old[f]

\* the first of two tasks was given a new title and status, later than its
\* last update
C23_Witness ==
    /\ LastCall("updateTask")
    /\ hist[1].result = "list"
    /\ hist[1].id = 1
    /\ DOMAIN hist[1].input = {"title", "status"}
    /\ Len(tasks) = 2
    /\ tasks[1].title = <<"b">>
    /\ hist[1].before[1].updatedAt < hist[1].at

\* the other status
Flipped(status) == IF status = PENDING THEN COMPLETED ELSE PENDING

\* C24: a toggleTaskStatus that succeeds flips the status of its task,
\* refreshes its updatedAt and changes no other field of it and no other task
\* of the collection.
C24_ToggleFlipsOnlyStatus ==
    [][\A op \in BagToSet(ops) :
          (op.kind = "update" /\ op.origin = "toggle" /\ UpdatePut(op))
              => /\ \A i \in 1..Len(tasks) :
                     tasks[i].id # op.id =>
                         /\ findIndex(tasks', tasks[i].id) # 0
                         /\ tasks'[findIndex(tasks', tasks[i].id)] = tasks[i]
                 /\ Ids(tasks') = Ids(tasks)
                 /\ \A i \in 1..Len(tasks) :
                     tasks[i].id = op.id =>
                         LET new == tasks'[findIndex(tasks', op.id)]
                         IN  /\ new.status = Flipped(tasks[i].status)
                             /\ \A f \in DOMAIN tasks[i] \ {"status", "updatedAt"} :
                                    new[f] = tasks[i][f]]_vars

-----------------------------------------------------------------------------
(* C25 - C26: the dispatcher; C28 - C30: the timers of useNotification *)

\* C25: a non-empty batch goes to the channel the permission read at that
\* evaluation selects: granted - one native notification per task, tagged
\* with the task's id, and no fallback; not granted - the registered in-app
\* callback once with the whole batch, and no native notification.
C25_ChannelByPermission ==
    nt.last.batch # <<>>
        => /\ nt.last.permission = "granted"
                => /\ [i \in 1..Len(nt.last.natives) |-> nt.last.natives[i].tag] = nt.last.batch
                   /\ nt.last.fallbacks = <<>>
           /\ (nt.last.permission # "granted" /\ nt.inAppReminderCallback)
                => /\ nt.last.fallbacks = <<nt.last.batch>>
                   /\ nt.last.natives = <<>>

\* without the permission, a batch of two went to the in-app callback
C25_Witness ==
    /\ nt.last.permission = "denied"
    /\ nt.last.batch = <<1, 2>>
    /\ nt.last.fallbacks = <<(<<1, 2>>)>>
    /\ nt.last.threw = ""

\* a native notification of the last evaluation failed
SendFailed == \E i \in 1..Len(nt.last.natives) : ~nt.last.natives[i].sent

\* C26: with the permission granted, a native notification that fails raises
\* nothing, is not tried again, does not bring in the in-app callback and
\* does not keep the rest of the batch from being tried; the task counts as
\* notified like the others.
C26_SendFailureSwallowed ==
    (nt.last.permission = "granted" /\ SendFailed)
        => /\ nt.last.threw # "onInAppReminder"
           /\ nt.last.returned = nt.last.batch
           /\ Len(nt.last.natives) = Len(nt.last.batch)
           /\ \A i \in 1..Len(nt.last.natives) : nt.last.natives[i].tag = nt.last.batch[i]
           /\ nt.last.fallbacks = <<>>
           /\ nt.onTasksNotified => nt.last.marked = <<nt.last.batch>>
           /\ nt.last.threw = "" => nt.pendingReminders = nt.last.batch

\* the first of two notifications failed, the second was sent, both were marked
C26_Witness ==
    /\ nt.last.permission = "granted"
    /\ nt.last.batch = <<1, 2>>
    /\ Len(nt.last.natives) = 2
    /\ ~nt.last.natives[1].sent
    /\ nt.last.natives[2].sent
    /\ nt.last.marked = <<(<<1, 2>>)>>
    /\ nt.last.threw = ""

\* C28: at most one evaluation timer is armed, the one intervalRef holds; no
\* evaluation runs from another.
C28_SingleTimer ==
    /\ Cardinality(nt.timers) <= 1
    /\ nt.timers \subseteq {nt.intervalRef}

\* the check interval changed and the loop runs on its second timer
C28_Witness ==
    /\ nt.mounted
    /\ nt.checkInterval # DEFAULT_CHECK_INTERVAL
    /\ nt.intervalRef > 1
    /\ nt.timers = {nt.intervalRef}

\* C29: once the component is unmounted no evaluation timer and no permission
\* poll is armed and no evaluation runs; a second teardown changes nothing.
C29_TeardownCancelsTimers ==
    /\ ~nt.mounted => /\ nt.timers = {}
                      /\ nt.polls = {}
                      /\ Teardown(nt) = nt
    /\ ~nt.last.stopped

\* both timers were armed and the component is gone
C29_Witness ==
    /\ ~nt.mounted
    /\ nt.last.source # ""
    /\ nt.last.threw = ""
    /\ isSupported(nt)
    /\ nt.nextTimer >= 2
    /\ nt.timers = {}
    /\ nt.polls = {}

\* C30: an error thrown during an evaluation is caught inside it, the
\* evaluation sends nothing and marks nothing, and the loop stays running.
C30_TickErrorContained ==
    nt.last.threw # ""
        => /\ ~nt.last.escaped
           /\ nt.last.natives = <<>>
           /\ nt.last.marked = <<>>
           /\ nt.last.running

-----------------------------------------------------------------------------
(* C27: what an evaluation reads *)

\* the task with this id in a collection: a set of one record, or empty
Held(list, id) == {list[i] : i \in {j \in 1..Len(list) : list[j].id = id}}

\* the record with this id in the store: a set of one record, or empty
Persisted(id) == IF dbHas(store, id) THEN {dbGet(store, id)} ELSE {}

\* C27: an evaluation reads every accepted and persisted mutation: a task the
\* collection and the store agree on (as present with one record, or as
\* deleted) is the same in the collection the evaluation scans.
C27_TickSeesPersisted ==
    [][CheckReminders =>
          \A id \in 1..nextId :
              Held(tasks, id) = Persisted(id) => Held(tasksRef, id) = Held(tasks, id)]_vars

-----------------------------------------------------------------------------
(* utils/filterUtils.ts, utils/sortUtils.ts *)

\* filterByCategory
filterByCategory(list, category) ==
    IF category = ALL THEN list
    ELSE SelectSeq(list, LAMBDA task : task.category = category)

\* a status filter that lets every task through
filterByStatus_Ignored(list, status) == list

\* filterByStatus
filterByStatus(list, status) ==
    IF status = ALL THEN list
    ELSE SelectSeq(list, LAMBDA task : task.status = status)

\* filterTasks: the category filter, then the status filter
filterTasks(list, options) ==
    filterByStatus(filterByCategory(list, options.category), options.status)

PRIORITY_WEIGHT == (HIGH :> 0) @@ (MEDIUM :> 1) @@ (LOW :> 2)

\* a due date comparator without the rules for null: null is the lowest date
compare_NullDueIsADate(a, b, sortBy) ==
    CASE sortBy = PRIORITY -> PRIORITY_WEIGHT[a.priority] - PRIORITY_WEIGHT[b.priority]
      [] sortBy = DUE_DATE -> a.dueDate - b.dueDate
      [] OTHER -> b.createdAt - a.createdAt

\* the comparators of sortByPriority, sortByDueDate and sortByCreatedDate, as
\* sortTasks selects them (created date also for any other sortBy)
compare(a, b, sortBy) ==
    CASE sortBy = PRIORITY -> PRIORITY_WEIGHT[a.priority] - PRIORITY_WEIGHT[b.priority]
      [] sortBy = DUE_DATE ->
            IF a.dueDate = NullDate /\ b.dueDate = NullDate THEN 0
            ELSE IF a.dueDate = NullDate THEN 1
            ELSE IF b.dueDate = NullDate THEN -1
            ELSE a.dueDate - b.dueDate
      [] OTHER -> b.createdAt - a.createdAt

\* Array.prototype.sort is stable: an element goes behind everything that
\* does not compare greater than it
RECURSIVE insert(_, _, _)
insert(sorted, x, sortBy) ==
    IF sorted = <<>> THEN <<x>>
    ELSE IF compare(sorted[Len(sorted)], x, sortBy) > 0
    THEN Append(insert(SubSeq(sorted, 1, Len(sorted) - 1), x, sortBy), sorted[Len(sorted)])
    ELSE Append(sorted, x)

RECURSIVE arraySort(_, _)
arraySort(list, sortBy) ==
    IF list = <<>> THEN <<>>
    ELSE insert(arraySort(SubSeq(list, 1, Len(list) - 1), sortBy), list[Len(list)], sortBy)

\* sortTasks: [...tasks].sort(comparator); the array passed in is not touched
sortTasks(list, sortBy) == [tasks |-> list, result |-> arraySort(list, sortBy)]

-----------------------------------------------------------------------------
(* SpecView: queryTasks, filterTasks and sortTasks applied to a list of    *)
(* tasks that is in memory and, one record per task, in the store.         *)

MaxView == 3

\* what the tasks of a list differ in: status, priority, dueDate, createdAt
ViewShapes ==
    {<<PENDING, HIGH, 2, 1>>, <<COMPLETED, LOW, NullDate, 2>>,
     <<PENDING, MEDIUM, 1, 3>>, <<COMPLETED, HIGH, NullDate, 3>>}

ViewTask(id, category, shape) ==
    [MakeTask(id, shape[1], shape[3], UNDEFINED, FALSE)
        EXCEPT !.category = category, !.priority = shape[2], !.createdAt = shape[4],
               !.updatedAt = shape[4]]

\* the lists of n tasks, ids in the order of creation
RECURSIVE ViewListsOf(_)
ViewListsOf(n) ==
    IF n = 0 THEN {<<>>}
    ELSE {Append(l, ViewTask(n, c, sh)) :
            l \in ViewListsOf(n - 1), c \in {WORK, STUDY}, sh \in ViewShapes}

ViewLists == UNION {ViewListsOf(n) : n \in 0..MaxView}

NoFilter == [k \in {} |-> ""]

\* Partial<Task> objects over category, priority and status
QueryFilters ==
    {NoFilter}
    \cup {[category |-> c] : c \in TaskCategory}
    \cup {[priority |-> pr] : pr \in {HIGH, LOW}}
    \cup {[status |-> s] : s \in TaskStatus}
    \cup {[category |-> WORK, status |-> s] : s \in TaskStatus}
    \cup {[category |-> STUDY, priority |-> HIGH, status |-> COMPLETED]}

\* Pick<FilterOptions, 'category' | 'status'>
ViewOptions == [category : TaskCategory \cup {ALL}, status : TaskStatus \cup {ALL}]

ViewIdle ==
    [op |-> "",             \* the last call
     arg |-> "",            \* its filter, options or sortBy
     input |-> <<>>,        \* the array passed to it
     before |-> <<>>,       \* the store before it
     result |-> <<>>]       \* the array it returned

InitView ==
    /\ tasks \in ViewLists
    /\ tasksRef = tasks
    /\ store = tasks
    /\ supported = TRUE
    /\ ops = EmptyBag
    /\ now = 0
    /\ nextId = Len(tasks)
    /\ events = 0
    /\ returned = ""
    /\ hist = NoHist
    /\ ev = EvIdle
    /\ nt = NtIdle
    /\ st = ViewIdle

\* storageService.queryTasks(filter) on the open database
ViewQuery(filter) ==
    /\ store' = Request("queryTasks", filter, store).store
    /\ st' = [op |-> "queryTasks", arg |-> filter, input |-> <<>>, before |-> store,
              result |-> Request("queryTasks", filter, store).result]
    /\ UNCHANGED <<tasks, tasksRef, supported, ops, now, nextId, events, returned, hist,
                   ev, nt>>

\* filterTasks(tasks, options)
ViewFilter(options) ==
    /\ st' = [op |-> "filterTasks", arg |-> options, input |-> tasks, before |-> store,
              result |-> filterTasks(tasks, options)]
    /\ UNCHANGED <<tasks, tasksRef, store, supported, ops, now, nextId, events, returned,
                   hist, ev, nt>>

\* sortTasks(tasks, sortBy)
ViewSort(sortBy) ==
    /\ tasks' = sortTasks(tasks, sortBy).tasks
    /\ st' = [op |-> "sortTasks", arg |-> sortBy, input |-> tasks, before |-> store,
              result |-> sortTasks(tasks, sortBy).result]
    /\ UNCHANGED <<tasksRef, store, supported, ops, now, nextId, events, returned, hist,
                   ev, nt>>

NextView ==
    \/ \E filter \in QueryFilters : ViewQuery(filter)
    \/ \E options \in ViewOptions : ViewFilter(options)
    \/ \E sortBy \in SortBy : ViewSort(sortBy)

SpecView == InitView /\ [][NextView]_vars

-----------------------------------------------------------------------------
(* C33: queryTasks *)

\* the entries of a sequence, as a set
Entries(list) == {list[i] : i \in 1..Len(list)}

\* no entry twice
Distinct(list) == \A i, j \in 1..Len(list) : list[i] = list[j] => i = j

\* C33: queryTasks resolves with exactly the stored records that equal the
\* filter on every field the filter names (category, priority, status), each
\* once; with the empty filter these are all records; the store is as before.
C33_QueryExactMatches ==
    st.op = "queryTasks" =>
        /\ Entries(st.result) =
              {st.before[id] : id \in {i \in DOMAIN st.before :
                                          \A k \in DOMAIN st.arg : st.before[i][k] = st.arg[k]}}
        /\ Distinct(st.result)
        /\ DOMAIN st.arg = {} => Entries(st.result) = {st.before[id] : id \in DOMAIN st.before}
        /\ store = st.before

\* a filter over two fields kept one of three records: one of the others
\* differs in the category only, the other in the status only
C33_Witness ==
    /\ st.op = "queryTasks"
    /\ DOMAIN st.arg = {"category", "status"}
    /\ Len(st.result) = 1
    /\ Len(tasks) = 3
    /\ \E i \in DOMAIN store : store[i].category = st.arg.category /\ store[i].status # st.arg.status
    /\ \E i \in DOMAIN store : store[i].category # st.arg.category /\ store[i].status = st.arg.status

-----------------------------------------------------------------------------
(* C36: filterTasks *)

\* b holds entries of a in the order they have in a
RECURSIVE IsSubsequence(_, _)
IsSubsequence(b, a) ==
    IF b = <<>> THEN TRUE
    ELSE IF a = <<>> THEN FALSE
    ELSE IF Head(a) = Head(b) THEN IsSubsequence(Tail(b), Tail(a))
    ELSE IsSubsequence(b, Tail(a))

Kept(task, options) ==
    /\ options.category = ALL \/ task.category = options.category
    /\ options.status = ALL \/ task.status = options.status

\* C36: filterTasks with category 'all' and status 'all' returns the list as
\* it is; with any options it returns exactly the tasks whose category and
\* status match the options ('all' matching every task), in the order they
\* have in the list.
C36_FilterKeepsMatchesInOrder ==
    st.op = "filterTasks" =>
        /\ (st.arg.category = ALL /\ st.arg.status = ALL) => st.result = st.input
        /\ Entries(st.result) = {t \in Entries(st.input) : Kept(t, st.arg)}
        /\ IsSubsequence(st.result, st.input)
        /\ tasks = st.input

\* both filters dropped a task, and two tasks stayed around a dropped one
C36_Witness ==
    /\ st.op = "filterTasks"
    /\ st.arg.category # ALL /\ st.arg.status # ALL
    /\ Len(st.input) = 3 /\ Len(st.result) = 2
    /\ st.result = <<st.input[1], st.input[3]>>

-----------------------------------------------------------------------------
(* C37: sortTasks *)

\* how often an entry occurs
Count(list, x) == Cardinality({i \in 1..Len(list) : list[i] = x})

IsPermutation(a, b) ==
    /\ Len(a) = Len(b)
    /\ \A x \in Entries(a) \cup Entries(b) : Count(a, x) = Count(b, x)

\* a stands before b in the order selected
InOrder(a, b, sortBy) ==
    CASE sortBy = PRIORITY -> PRIORITY_WEIGHT[a.priority] <= PRIORITY_WEIGHT[b.priority]
      [] sortBy = DUE_DATE ->
            /\ a.dueDate = NullDate => b.dueDate = NullDate
            /\ (a.dueDate # NullDate /\ b.dueDate # NullDate) => a.dueDate <= b.dueDate
      [] sortBy = CREATED_DATE -> a.createdAt >= b.createdAt

\* C37: sortTasks returns a permutation of the list and leaves the list as
\* it was; by priority the result runs high, medium, low whatever the creation
\* dates are; by due date it runs from the earliest date on, the tasks without
\* a due date behind all others; by created date it runs from the newest on.
C37_SortOrdersPermutation ==
    st.op = "sortTasks" =>
        /\ IsPermutation(st.result, st.input)
        /\ tasks = st.input
        /\ \A i, j \in 1..Len(st.result) : i < j => InOrder(st.result[i], st.result[j], st.arg)

\* sorted by due date: a task without due date led the list and ends it now
C37_Witness ==
    /\ st.op = "sortTasks" /\ st.arg = DUE_DATE
    /\ Len(st.input) = 3
    /\ st.input[1].dueDate = NullDate
    /\ st.result[3] = st.input[1]
    /\ st.result[1].dueDate = 1 /\ st.result[2].dueDate = 2

-----------------------------------------------------------------------------
(* C34: the timestamps *)

\* the last call returned a task or a list
Succeeded(call) == LastCall(call) /\ hist[1].result \in {"task", "list"}

\* C34: every task has updatedAt >= createdAt; no call changes the createdAt
\* of a task; a createTask that succeeds stamps the new task, and an
\* updateTask (a mark as notified among them) or toggleTaskStatus that
\* succeeds stamps its task, with the instant of the call as updatedAt.
C34_Timestamps ==
    /\ \A i \in 1..Len(tasks) : tasks[i].updatedAt >= tasks[i].createdAt
    /\ hist # <<>> =>
          \A i \in 1..Len(hist[1].before) : \A j \in 1..Len(tasks) :
              tasks[j].id = hist[1].before[i].id
                  => tasks[j].createdAt = hist[1].before[i].createdAt
    /\ Succeeded("createTask") =>
          /\ tasks[Len(tasks)].createdAt = hist[1].at
          /\ tasks[Len(tasks)].updatedAt = hist[1].at
    /\ (Succeeded("updateTask") \/ Succeeded("toggleTaskStatus")) =>
          tasks[findIndex(tasks, hist[1].id)].updatedAt = hist[1].at

\* a task of an earlier instant was marked as notified and then toggled:
\* it carries its createdAt and the instant of the toggle
C34_Witness ==
    /\ Succeeded("toggleTaskStatus")
    /\ Len(hist) = 2 /\ hist[2].call = "updateTask" /\ hist[2].result = "list"
    /\ DOMAIN hist[2].input = {"notificationSent"}
    /\ hist[2].id = hist[1].id
    /\ LET task == tasks[findIndex(tasks, hist[1].id)]
       IN  /\ task.createdAt = hist[2].before[findIndex(hist[2].before, hist[1].id)].createdAt
           /\ task.updatedAt = hist[1].at
           /\ task.updatedAt > task.createdAt

-----------------------------------------------------------------------------
(* C35: ids *)

\* the ids in use: in the collection, in the store, or of a task on its way there
IdsInUse == Ids(tasks) \cup DOMAIN store \cup {op.id : op \in BagToSet(ops)}

-----------------------------------------------------------------------------
(* C31: the permission prompt *)

\* C31: requestPermission asks the platform only from 'default'; from
\* 'granted' and 'denied' it returns the status as it is, and on a platform
\* without the API it returns 'unsupported', in both cases without asking.
C31_PromptsOnlyFromDefault ==
    /\ nt.request.status \in {"granted", "denied", "unsupported"}
          => /\ ~nt.request.prompted
             /\ nt.request.result = nt.request.status
    /\ nt.request.prompted <=> nt.request.status = "default"

\* the user denied the prompt; the next requestPermission answered 'denied'
\* and did not ask again
C31_Witness ==
    /\ nt.request.prompts = 1
    /\ nt.request.status = "denied"
    /\ ~nt.request.prompted
    /\ nt.request.result = "denied"

-----------------------------------------------------------------------------
(* C32: deleteTask *)

\* the last call was a deleteTask whose db.delete did not fail
DeleteDone == st.op = "deleteTask" /\ st.dbOk

\* the last call resolved and the one before it was a deleteTask of taskId that resolved
FollowsDelete(op, taskId) ==
    /\ st.op = op /\ st.outcome = "ok"
    /\ st.prior = "deleteTask" /\ st.priorOk /\ st.priorId = taskId

\* C32: deleteTask resolves whether or not a record is under the id; after
\* it no record is under the id and every other record is as it was (so a
\* delete of an absent id changes nothing); the getTask that follows returns
\* undefined and the loadTasks that follows does not contain the id.
C32_DeleteRemovesOnlyItsRecord ==
    /\ DeleteDone =>
          /\ st.outcome = "ok"
          /\ ~dbHas(store, st.id)
          /\ DOMAIN store = (DOMAIN st.before) \ {st.id}
          /\ \A i \in DOMAIN store : store[i] = st.before[i]
          /\ st.absent => store = st.before
    /\ \A taskId \in StoreIds :
          /\ (FollowsDelete("getTask", taskId) /\ st.id = taskId) => st.result = UNDEFINED
          /\ FollowsDelete("loadTasks", taskId) =>
                \A i \in 1..Len(st.result) : st.result[i].id # taskId

\* a record was deleted while another stayed, and the getTask after it
\* found nothing
C32_Witness ==
    /\ FollowsDelete("getTask", 1) /\ st.id = 1
    /\ st.result = UNDEFINED
    /\ DOMAIN store = {2}
    /\ st.before = store

-----------------------------------------------------------------------------
(* C38: what processTaskReminders returns *)

\* the ids the last run of checkReminders tried to deliver: by a native
\* notification, or in a batch handed to the in-app callback
Attempted ==
    {nt.last.natives[i].tag : i \in 1..Len(nt.last.natives)}
        \cup UNION {Entries(nt.last.fallbacks[i]) : i \in 1..Len(nt.last.fallbacks)}

\* C38: every task processTaskReminders returned, and every task
\* checkReminders handed to onTasksNotified to be marked, had a delivery
\* attempted in that run, also with the permission not granted and no in-app
\* callback set.
C38_ReturnedWereAttempted ==
    /\ Entries(nt.last.returned) \subseteq Attempted
    /\ \A i \in 1..Len(nt.last.marked) : Entries(nt.last.marked[i]) \subseteq Attempted

-----------------------------------------------------------------------------
(* C39: a delete is final *)

\* C39: a task whose deleteTask has resolved is in neither the collection nor
\* the store from then on, whatever updateTask, toggleTaskStatus or mark as
\* notified of the same id was in flight when it resolved.
C39_DeletedStaysAbsent ==
    \A id \in hist.deleted : id \notin Ids(tasks) /\ ~dbHas(store, id)

-----------------------------------------------------------------------------
(* C17: the notified flag *)

\* C17: a task whose notificationSent is true keeps it true in every step
\* that leaves its dueDate and reminderOption as they were.
C17_NotifiedMonotonic ==
    [][\A i \in 1..Len(tasks) :
          (/\ tasks[i].notificationSent
           /\ findIndex(tasks', tasks[i].id) # 0
           /\ lead(tasks'[findIndex(tasks', tasks[i].id)]) = lead(tasks[i]))
              => tasks'[findIndex(tasks', tasks[i].id)].notificationSent]_vars

-----------------------------------------------------------------------------
(* C1 - C4: exactly-once reminders *)

\* C1: a task is dispatched at most once between its creation, or its last
\* change of dueDate / reminderOption, and the next such change: no
\* evaluation hands out a task already dispatched in that period.
C1_DispatchedAtMostOnce ==
    [][CheckReminders =>
          Ids(checkTasksForNotification(tasksRef, now)) \cap hist.dispatched = {}]_vars

\* C2: once every store write of the marks of one evaluation has succeeded
\* and the result is rendered, each task of that batch is in the collection
\* the next evaluation reads, with notificationSent = true.
C2_BatchAllMarked ==
    (hist.batch # {} /\ ops = EmptyBag /\ tasksRef = tasks) =>
        /\ hist.batch \subseteq Ids(tasksRef)
        /\ \A i \in 1..Len(tasksRef) :
              tasksRef[i].id \in hist.batch => tasksRef[i].notificationSent

\* C3: an unmodified task created by addTask with a due date and a reminder
\* lead, met by an evaluation at an instant of its reminder window, has been
\* handed to the dispatcher.
C3_CreatedTaskDispatched == hist.inWindow \subseteq hist.dispatched

\* C4: no evaluation starts while a mark of an earlier evaluation is pending.
C4_EvaluationsSerialized == [][CheckReminders => ~MarkPending]_vars

-----------------------------------------------------------------------------
(* C8, C9: write-through of the hook operations *)

\* the store holds what the operation asked it to write
Written(op) ==
    IF op.kind = "delete" THEN ~dbHas(store', op.id)
    ELSE dbHas(store', op.id) /\ store'[op.id] = op.task

\* C8: the in-memory collection changes only in the step in which an
\* operation's store write has succeeded and the operation reports success;
\* an operation that reports failure (null or false) leaves the collection
\* and the store as they were.
C8_WriteThenMemory ==
    [][/\ tasks' # tasks =>
            \E op \in BagToSet(ops) :
                Finished(op) /\ Written(op) /\ returned' \in {"task", "true"}
       /\ (returned' \in {"null", "false"} /\ (returned' # returned \/ ops' # ops)) =>
            (tasks' = tasks /\ store' = store)]_vars

\* a store write failed and the collection is what it was before the operation
C8_Witness ==
    /\ hist.failed
    /\ returned = "false"
    /\ ops = EmptyBag
    /\ Len(tasks) = 2

MemoryMirrorsStore ==
    /\ Ids(tasks) = DOMAIN store
    /\ \A i \in 1..Len(tasks) : store[tasks[i].id] = tasks[i]

\* C9: with every store write succeeded and no operation in flight, the
\* in-memory collection and the store hold the same ids with equal fields.
C9_MemoryEqualsStore ==
    (ops = EmptyBag /\ ~hist.failed) => MemoryMirrorsStore

====
